---- MODULE Spec2Model ----
(***************************************************************************)
(* A model of the cloud-backup client (src/unnamed/part_000): the chunked  *)
(* upload engine uploadFileSlices, the folder path resolver                *)
(* ensureFolderPath / findFolderPath with the listing primitive            *)
(* listFolders and the creation candidates createFolderCandidates, the     *)
(* list-versions action runListVersions with listFiles, the RSA key        *)
(* acquisition getRsaKey, the download action runDownloadFile, the        *)
(* open-API signature md5Signature and the upload action runUpload; and of *)
(* the share link resolver (src/backend/tianyi_share_resolver.js).         *)
(*                                                                         *)
(* Every await of the code is a point where the environment (the cloud     *)
(* backend, the local disk) answers; an action is the code that runs from  *)
(* one answer to the next request.                                         *)
(***************************************************************************)
EXTENDS Integers, Sequences, FiniteSets, TLC

VARIABLES
    \* ---- uploadFileSlices ------------------------------------------------
    isFile,            \* stat.isFile() of localFilePath
    fileSize,          \* stat.size
    diskSize,          \* the file's length when it is read (it may have shrunk)
    sliceSize,         \* the sliceSize argument (0: not given)
    chunkSize,
    chunkCount,
    upc,               \* where uploadFileSlices stands
    i,                 \* the part loop's counter
    uploadFileId,
    fd,                \* "none" | "open" | "closed"
    openCount,
    closeCount,
    chunkBuffer,       \* the bytes of the part being sent
    md5PartHexUpper,
    fileMd5Hasher,     \* the bytes fed to the whole-file hasher so far
    reads,             \* every readSync: part, offset, size, readBytes
    net,               \* the requests and responses, in order
    urlReqs,           \* the forms of the getMultiUploadUrls requests
    putReqs,           \* the bodies of the PUT requests
    commitReqs,        \* the form of the commit request
    uresult,           \* what uploadFileSlices returned or threw
    initPayload,       \* what uploadRequest returned for initMultiUpload
    commitPayload,     \* what uploadRequest returned for the commit
    \* ---- ensureFolderPath / findFolderPath ----------------------------------
    fcall,             \* "ensure" | "find": the function called
    parts,             \* the parts argument: raw names
    folders,           \* the backend's folders, newest first: id, parent, name
    folders0,          \* the backend's folders when the current call began
    contract,          \* what the backend does with each creation candidate
    fpc,               \* where the function stands
    idx,               \* the index in parts of the segment being processed
    parentFolderId,
    trace,
    cand,              \* the creation candidate to try next
    attempts,
    flog,              \* the current call's requests, in order
    fresult,           \* what the call returned or threw
    callNo,            \* 1, or 2 for the repeated call
    firstResult,       \* what the first call returned
    \* ---- runListVersions / listFiles ---------------------------------------
    lpc,               \* where runListVersions stands
    lpayload,          \* the payload: cookie, session_key, remote_folder_parts
    fileServer,        \* what the backend answers to the listing of files
    filePageNum,       \* listFiles' page counter
    lfiles,            \* listFiles' files collected so far
    fileReqs,          \* listFiles' requests, in order
    lresult,           \* what runListVersions returned or threw
    \* ---- getRsaKey -----------------------------------------------------------
    rpc,               \* where getRsaKey stands
    rcand,             \* the index of the candidate to try next
    rattempts,         \* getRsaKey's attempts
    rreqs,             \* the key requests, in order
    rresps,            \* what the backend answered to each
    rresult,           \* what getRsaKey returned or threw
    \* ---- runDownloadFile / getCloudFileDownloadUrl / downloadUrlToFile -------
    dpc,               \* where runDownloadFile stands
    dpayload,          \* the payload of the download action
    dcand,             \* the index of the URL candidate to try next
    dattempts,         \* getCloudFileDownloadUrl's attempts
    dreqs,             \* the URL requests, in order
    dresps,            \* what the backend answered to each
    downloadUrl,
    dirMade,           \* mkdirSync of the destination's directory was done
    fetchResp,         \* the outcome of the fetch of the download URL
    stream,            \* "none" | "open" | "ended" | "error": the pipeline
    destFile0,         \* the file at the destination path before the action
    destFile,          \* the file at the destination path
    dresult,           \* what runDownloadFile returned or threw
    \* ---- tianyi_share_resolver.js: run ----------------------------------------
    spc,               \* where run stands
    sinput,            \* the input: share_url, cookie
    fetchAvailable,    \* typeof fetch === "function"
    scalls,            \* the requests of requestText, in order
    sattempts,         \* run's attempts
    shareId,
    rootFileId,
    isFolder,
    checkResp,         \* the response to the access-code check
    infoResp,          \* the response to the share-info request
    listResp,          \* the response to the listing request
    sresult,           \* what run returned or threw
    \* ---- tianyi_share_resolver.js: getDeepString, getDeepArray --------------
    deepPc,            \* where the search stands
    deepMode,          \* "string": getDeepString, "array": getDeepArray
    deepNodes,         \* the object graph searched, node 1 the payload
    deepStack,         \* stack
    deepVisited,       \* visited
    deepOrder,         \* the nodes taken off the stack and not skipped, in order
    deepPops,          \* how many times stack.pop() ran
    deepResult,        \* what the search returned
    \* ---- the two scripts' entry points -------------------------------------
    mpc,               \* where the entry point stands
    mscript,           \* "uploader": part_000, "resolver": tianyi_share_resolver.js
    mstdin,            \* what the process reads from its standard input
    mfileKind,         \* what is at the resolved local_file_path
    mop,               \* the operation the request was dispatched to
    mnet,              \* whether the operation has made a network request
    mrun,              \* what the operation returned or threw
    mstdout,           \* the objects written to the standard output, in order
    mexit,             \* the exit status the process ends with
    \* ---- listFolders, listFiles: the paging loop ----------------------------
    pgPc,              \* where the loop stands
    pgKind,            \* "folders": listFolders, "files": listFiles
    pgServer,          \* the backend's rows, the count it reports, its paging
    pgNum,             \* pageNum
    pgLog,             \* the pages requested and what each answered, in order
    \* ---- the loops that await their requests --------------------------------
    awPc,              \* "send": about to start a request, "await": suspended
    awLoop,            \* which loop runs
    awParts,           \* chunkCount of the upload loop
    awIndex,           \* the loop's turn: candidate or part number, from 1
    awStep,            \* the request of the turn: "urls" then "put" for a part
    awPending,         \* the requests started and not yet settled
    awLog,             \* the requests started and settled, in order
    \* ---- md5Signature -------------------------------------------------------
    sgPc,              \* "ready" before the call, "signed" after it
    sgParams,          \* params: the entries in insertion order
    sgOther,           \* the same entries inserted in another order
    sgCollation,       \* what localeCompare is in this build of the runtime
    sgText,            \* signText of params
    sgSignature,       \* md5Signature(params)
    sgOtherSignature,  \* md5Signature of the reordered map
    \* ---- runUpload ----------------------------------------------------------
    ruPc,              \* where runUpload stands
    ruValid,           \* the fields and the local file pass lines 768-773
    ruSegments,        \* the folder path's parts, FreedeckCloudSaves included
    ruSeg,             \* the part ensureFolderPath is at
    ruChunks,          \* chunkCount
    ruPartNo,          \* the part uploadFileSlices is at
    ruRsa,             \* pkId of the key getRsaKey returned (0: none yet)
    ruKeyCalls,        \* the calls of getRsaKey
    ruLog,             \* every request of the invocation, in order
    ruResult           \* how runUpload ended

uvars == <<isFile, fileSize, diskSize, sliceSize, chunkSize, chunkCount, upc, i,
           uploadFileId, fd, openCount, closeCount, chunkBuffer, md5PartHexUpper,
           fileMd5Hasher, reads, net, urlReqs, putReqs, commitReqs, uresult,
           initPayload, commitPayload>>

fvars == <<fcall, parts, folders, folders0, contract, fpc, idx, parentFolderId,
           trace, cand, attempts, flog, fresult, callNo, firstResult>>

lvars == <<lpc, lpayload, fileServer, filePageNum, lfiles, fileReqs, lresult>>

kvars == <<rpc, rcand, rattempts, rreqs, rresps, rresult>>

dvars == <<dpc, dpayload, dcand, dattempts, dreqs, dresps, downloadUrl, dirMade,
           fetchResp, stream, destFile0, destFile, dresult>>

svars == <<spc, sinput, fetchAvailable, scalls, sattempts, shareId, rootFileId,
           isFolder, checkResp, infoResp, listResp, sresult>>

gvars == <<deepPc, deepMode, deepNodes, deepStack, deepVisited, deepOrder,
           deepPops, deepResult>>

mvars == <<mpc, mscript, mstdin, mfileKind, mop, mnet, mrun, mstdout, mexit>>

pvars == <<pgPc, pgKind, pgServer, pgNum, pgLog>>

avars == <<awPc, awLoop, awParts, awIndex, awStep, awPending, awLog>>

gnvars == <<sgPc, sgParams, sgOther, sgCollation, sgText, sgSignature, sgOtherSignature>>

rvars == <<ruPc, ruValid, ruSegments, ruSeg, ruChunks, ruPartNo, ruRsa, ruKeyCalls, ruLog, ruResult>>

vars == <<uvars, fvars, lvars, kvars, dvars, svars, gvars, mvars, pvars, avars, gnvars, rvars>>

\* the variables an action of one function leaves alone: those of the others
othersOfUpload == <<fvars, lvars, kvars, dvars, svars, gvars, mvars, pvars, avars, gnvars, rvars>>

othersOfFolder == <<uvars, lvars, kvars, dvars, svars, gvars, mvars, pvars, avars, gnvars, rvars>>

othersOfList == <<uvars, kvars, dvars, svars, gvars, mvars, pvars, avars, gnvars, rvars>>

othersOfRsa == <<uvars, fvars, lvars, dvars, svars, gvars, mvars, pvars, avars, gnvars, rvars>>

othersOfDownload == <<uvars, fvars, lvars, kvars, svars, gvars, mvars, pvars, avars, gnvars, rvars>>

othersOfShare == <<uvars, fvars, lvars, kvars, dvars, gvars, mvars, pvars, avars, gnvars, rvars>>

othersOfDeep == <<uvars, fvars, lvars, kvars, dvars, svars, mvars, pvars, avars, gnvars, rvars>>

othersOfMain == <<uvars, fvars, lvars, kvars, dvars, svars, gvars, pvars, avars, gnvars, rvars>>

othersOfPaging == <<uvars, fvars, lvars, kvars, dvars, svars, gvars, mvars, avars, gnvars, rvars>>

othersOfAwait == <<uvars, fvars, lvars, kvars, dvars, svars, gvars, mvars, pvars, gnvars, rvars>>

othersOfSign == <<uvars, fvars, lvars, kvars, dvars, svars, gvars, mvars, pvars, avars, rvars>>

othersOfRunUpload == <<uvars, fvars, lvars, kvars, dvars, svars, gvars, mvars, pvars, avars,
                       gnvars>>

-----------------------------------------------------------------------------
(* Arithmetic helpers.                                                     *)

Max(a, b) == IF a >= b THEN a ELSE b

Min(a, b) == IF a <= b THEN a ELSE b

\* Math.ceil(a / b) for a >= 0, b > 0 (exact below 2^53)
CeilDiv(a, b) == (a + b - 1) \div b

MiB == 1024 * 1024

DEFAULT_SLICE_SIZE == 10 * 1024 * 1024

-----------------------------------------------------------------------------
(* Texts read from a response.  A text is a sequence of characters, " "    *)
(* standing for the white space trim() removes; the empty sequence is an   *)
(* empty text and also a field that is absent.                             *)

RECURSIVE TrimStart(_)
TrimStart(s) ==
    IF s = <<>> THEN <<>>
    ELSE IF Head(s) = " " THEN TrimStart(Tail(s)) ELSE s

RECURSIVE TrimEnd(_)
TrimEnd(s) ==
    IF s = <<>> THEN <<>>
    ELSE IF s[Len(s)] = " " THEN TrimEnd(SubSeq(s, 1, Len(s) - 1)) ELSE s

\* String.prototype.trim
Trim(s) == TrimEnd(TrimStart(s))

\* lines 89-95: the first value that is not empty once trimmed
RECURSIVE firstString(_)
firstString(values) ==
    IF values = <<>> THEN <<>>
    ELSE IF Trim(Head(values)) # <<>> THEN Trim(Head(values))
    ELSE firstString(Tail(values))

-----------------------------------------------------------------------------
(* Bytes, digests and their encodings.  A run of bytes of the local file   *)
(* is the list of the file intervals it is made of, adjacent intervals     *)
(* merged, so that two byte strings are equal exactly when they are the    *)
(* same bytes of the file.  MD5 is a free constructor (no collisions), and *)
(* each encoding of a digest is a value of its own.                        *)

NoBytes == <<>>

FileBytes(offset, len) ==
    IF len <= 0 THEN NoBytes ELSE <<[off |-> offset, len |-> len]>>

Concat(a, b) ==
    IF b = NoBytes THEN a
    ELSE IF a = NoBytes THEN b
    ELSE LET la == a[Len(a)]
             fb == b[1]
         IN IF la.off + la.len = fb.off
            THEN SubSeq(a, 1, Len(a) - 1)
                 \o <<[off |-> la.off, len |-> la.len + fb.len]>>
                 \o Tail(b)
            ELSE a \o b

Md5(data) == [md5 |-> data]

HexUpper(digest) == [enc |-> "HEX", of |-> digest]

HexLower(digest) == [enc |-> "hex", of |-> digest]

Base64(digest) == [enc |-> "base64", of |-> digest]

\* Array.prototype.join("\n") of a list of texts
JoinNewline(texts) == [joined |-> texts, sep |-> "\n"]

\* the bytes of a text: bytes that are not bytes of the local file
Utf8(text) == <<[utf8 |-> text]>>

\* md5Hex(text): the lower-case hex MD5 of the text's bytes
md5Hex(text) == HexLower(Md5(Utf8(text)))

-----------------------------------------------------------------------------
(* Bounds of the model.                                                    *)

MaxFileMiB == 3

FileSizes ==
    {0, 1} \cup {k * MiB + d : k \in 1..MaxFileMiB, d \in {-1, 0, 1}}
           \cup {25 * MiB}

\* 0 stands for "no sliceSize given"; 1 is below the floor
SliceSizes == {0, 1, MiB, MiB + 1, 2 * MiB, DEFAULT_SLICE_SIZE}

DiskSizes(fs) == {fs, fs \div 2}

-----------------------------------------------------------------------------
(* The state of a function that is not running.                            *)

ROOT_FOLDER_ID == -11

NoFolderResult == [state |-> "running"]

FolderIdle ==
    /\ fcall = "none"
    /\ parts = <<>>
    /\ folders = <<>>
    /\ folders0 = <<>>
    /\ contract = <<>>
    /\ fpc = "idle"
    /\ idx = 0
    /\ parentFolderId = ROOT_FOLDER_ID
    /\ trace = <<>>
    /\ cand = 0
    /\ attempts = <<>>
    /\ flog = <<>>
    /\ fresult = NoFolderResult
    /\ callNo = 0
    /\ firstResult = NoFolderResult

NoFileServer == [rows |-> <<>>, count |-> 0, sticky |-> FALSE]

ListVersionsIdle ==
    /\ lpc = "idle"
    /\ lpayload = [cookie |-> <<>>, session_key |-> <<>>,
                   remote_folder_parts |-> [isArray |-> FALSE, items |-> <<>>]]
    /\ fileServer = NoFileServer
    /\ filePageNum = 0
    /\ lfiles = <<>>
    /\ fileReqs = <<>>
    /\ lresult = [state |-> "running"]

RsaIdle ==
    /\ rpc = "idle"
    /\ rcand = 0
    /\ rattempts = <<>>
    /\ rreqs = <<>>
    /\ rresps = <<>>
    /\ rresult = [state |-> "running"]

NoFile == [exists |-> FALSE, bytes |-> <<>>]

DownloadIdle ==
    /\ dpc = "idle"
    /\ dpayload = [cookie |-> <<>>, access_token |-> <<>>, session_key |-> <<>>,
                   file_id |-> <<>>, local_file_path |-> <<>>]
    /\ dcand = 0
    /\ dattempts = <<>>
    /\ dreqs = <<>>
    /\ dresps = <<>>
    /\ downloadUrl = <<>>
    /\ dirMade = FALSE
    /\ fetchResp = "none"
    /\ stream = "none"
    /\ destFile0 = NoFile
    /\ destFile = NoFile
    /\ dresult = [state |-> "running"]

NoResponse == [status |-> 0, body |-> [wrap |-> "empty", frags |-> <<>>],
               url |-> <<>>]

ShareIdle ==
    /\ spc = "idle"
    /\ sinput = [share_url |-> [text |-> "empty", hostname |-> "",
                                pathname |-> <<>>, pwd |-> <<>>],
                 cookie |-> <<>>]
    /\ fetchAvailable = TRUE
    /\ scalls = <<>>
    /\ sattempts = <<>>
    /\ shareId = <<>>
    /\ rootFileId = <<>>
    /\ isFolder = FALSE
    /\ checkResp = NoResponse
    /\ infoResp = NoResponse
    /\ listResp = NoResponse
    /\ sresult = [state |-> "running"]

NotFound == [found |-> FALSE, text |-> <<>>, ref |-> 0]

DeepIdle ==
    /\ deepPc = "idle"
    /\ deepMode = "string"
    /\ deepNodes = <<>>
    /\ deepStack = <<>>
    /\ deepVisited = {}
    /\ deepOrder = <<>>
    /\ deepPops = 0
    /\ deepResult = NotFound

MainIdle ==
    /\ mpc = "idle"
    /\ mscript = "uploader"
    /\ mstdin = [kind |-> "empty"]
    /\ mfileKind = "absent"
    /\ mop = "none"
    /\ mnet = FALSE
    /\ mrun = [state |-> "running"]
    /\ mstdout = <<>>
    /\ mexit = 0

PagingIdle ==
    /\ pgPc = "idle"
    /\ pgKind = "folders"
    /\ pgServer = [rows |-> 0, count |-> 0, sticky |-> FALSE]
    /\ pgNum = 0
    /\ pgLog = <<>>

AwaitIdle ==
    /\ awPc = "idle"
    /\ awLoop = "none"
    /\ awParts = 0
    /\ awIndex = 0
    /\ awStep = "only"
    /\ awPending = <<>>
    /\ awLog = <<>>

SignIdle ==
    /\ sgPc = "idle"
    /\ sgParams = <<>>
    /\ sgOther = <<>>
    /\ sgCollation = "icu"
    /\ sgText = <<>>
    /\ sgSignature = md5Hex(<<>>)
    /\ sgOtherSignature = md5Hex(<<>>)

RunUploadIdle ==
    /\ ruPc = "idle"
    /\ ruValid = FALSE
    /\ ruSegments = 0
    /\ ruSeg = 0
    /\ ruChunks = 0
    /\ ruPartNo = 0
    /\ ruRsa = 0
    /\ ruKeyCalls = 0
    /\ ruLog = <<>>
    /\ ruResult = [state |-> "running", stage |-> "none"]

-----------------------------------------------------------------------------
(* uploadFileSlices                                                        *)

NoResult == [state |-> "running", error |-> "", userFileId |-> <<>>,
             fileSize |-> 0, chunkCount |-> 0]

Req(op, part) == [ev |-> "req", op |-> op, part |-> part, ok |-> TRUE]

Resp(op, part, ok) == [ev |-> "resp", op |-> op, part |-> part, ok |-> ok]

HashEv(part) == [ev |-> "hash", op |-> "part", part |-> part, ok |-> TRUE]

EffectiveChunkSize(ss) == Max(MiB, IF ss = 0 THEN DEFAULT_SLICE_SIZE ELSE ss)

\* faulty variant: the quotient rounded down
ChunkCountFloor(fs, cs) == Max(1, fs \div cs)

ChunkCountOf(fs, cs) == Max(1, CeilDiv(fs, cs))

PartOffset(part, cs) == (part - 1) * cs

\* faulty variant: every part is read with the full chunk size
PartSizeNoMin(part, fs, cs) == cs

PartSize(part, fs, cs) == Min(cs, fs - PartOffset(part, cs))

\* fs.readSync: the bytes the file still has at that offset, at most size
ReadBytes(offset, size, disk) == Min(size, Max(0, disk - offset))

\* faulty variant: the one-chunk case is not told apart
SliceMd5AlwaysJoined(fs, cs, fileMd5, partsHexUpper) ==
    md5Hex(JoinNewline(partsHexUpper))

SliceMd5Of(fs, cs, fileMd5, partsHexUpper) ==
    IF fs <= cs THEN fileMd5 ELSE md5Hex(JoinNewline(partsHexUpper))

\* faulty variant: an empty chunk's digest is not recorded
PushPartMd5SkipEmpty(list, chunk) ==
    IF chunk = NoBytes THEN list ELSE Append(list, HexUpper(Md5(chunk)))

\* lines 602-605: the part's digest, upper-case hex, pushed on the list
PushPartMd5(list, chunk) == Append(list, HexUpper(Md5(chunk)))

Thrown(err) == [NoResult EXCEPT !.state = "thrown", !.error = err]

\* the payloads uploadRequest can return for initMultiUpload: where they
\* carry an uploadFileId, if anywhere
NoInitPayload ==
    [received |-> FALSE, dataUploadFileId |-> <<>>, uploadFileId |-> <<>>]

InitPayloads ==
    [received : {TRUE},
     dataUploadFileId : {<<>>, <<" ">>, <<"U", "1">>},
     uploadFileId : {<<>>, <<"U", "2">>}]

\* lines 582-585
InitUploadFileId(payload) ==
    firstString(<<payload.dataUploadFileId, payload.uploadFileId>>)

\* faulty variant: the missing uploadFileId is not looked at
InitAcceptedAlways(payload) == TRUE

\* lines 586-588: the init response is gone on with
InitAccepted(payload) == InitUploadFileId(payload) # <<>>

\* the payloads uploadRequest can return for the commit
NoCommitPayload ==
    [received |-> FALSE, fileUserFileId |-> <<>>, dataUserFileId |-> <<>>,
     userFileId |-> <<>>]

CommitPayloads ==
    [received : {TRUE},
     fileUserFileId : {<<>>, <<"F", "1">>},
     dataUserFileId : {<<>>, <<" ">>, <<"F", "2">>},
     userFileId : {<<>>, <<"F", "3">>}]

\* lines 663-667
CommitUserFileId(payload) ==
    firstString(<<payload.fileUserFileId, payload.dataUserFileId,
                  payload.userFileId>>)

\* faulty variant: a commit response without userFileId is an error
CommitResultStrict(payload, size, count) ==
    IF CommitUserFileId(payload) = <<>> THEN Thrown("missing_userFileId")
    ELSE [state |-> "returned", error |-> "",
          userFileId |-> CommitUserFileId(payload),
          fileSize |-> size, chunkCount |-> count]

\* lines 663-675: what uploadFileSlices returns after the commit
CommitResult(payload, size, count) ==
    [state |-> "returned", error |-> "",
     userFileId |-> CommitUserFileId(payload),
     fileSize |-> size, chunkCount |-> count]

InitUpload ==
    /\ RunUploadIdle
    /\ SignIdle
    /\ AwaitIdle
    /\ PagingIdle
    /\ MainIdle
    /\ DeepIdle
    /\ ShareIdle
    /\ DownloadIdle
    /\ RsaIdle
    /\ ListVersionsIdle
    /\ FolderIdle
    /\ isFile \in BOOLEAN
    /\ fileSize \in FileSizes
    /\ diskSize \in DiskSizes(fileSize)
    /\ sliceSize \in SliceSizes
    /\ chunkSize = 0
    /\ chunkCount = 0
    /\ upc = "start"
    /\ i = 0
    /\ uploadFileId = <<>>
    /\ fd = "none"
    /\ openCount = 0
    /\ closeCount = 0
    /\ chunkBuffer = NoBytes
    /\ md5PartHexUpper = <<>>
    /\ fileMd5Hasher = NoBytes
    /\ reads = <<>>
    /\ net = <<>>
    /\ urlReqs = <<>>
    /\ putReqs = <<>>
    /\ commitReqs = <<>>
    /\ uresult = NoResult
    /\ initPayload = NoInitPayload
    /\ commitPayload = NoCommitPayload

\* lines 558-580: stat, the sizes, and the init request
UStart ==
    /\ UNCHANGED othersOfUpload
    /\ upc = "start"
    /\ IF ~isFile
       THEN /\ upc' = "failed"
            /\ uresult' = Thrown("invalid_file")
            /\ UNCHANGED <<chunkSize, chunkCount, net>>
       ELSE /\ chunkSize' = EffectiveChunkSize(sliceSize)
            /\ chunkCount' = ChunkCountOf(fileSize, EffectiveChunkSize(sliceSize))
            /\ net' = Append(net, Req("init", 0))
            /\ upc' = "init_wait"
            /\ UNCHANGED uresult
    /\ UNCHANGED <<isFile, fileSize, diskSize, sliceSize, i, uploadFileId, fd,
                   openCount, closeCount, chunkBuffer, md5PartHexUpper,
                   fileMd5Hasher, reads, urlReqs, putReqs, commitReqs, initPayload, commitPayload>>

\* lines 567-592: the init response, uploadFileId, and opening the file
UInitResponse ==
    /\ UNCHANGED othersOfUpload
    /\ upc = "init_wait"
    /\ \/ /\ net' = Append(net, Resp("init", 0, FALSE))
          /\ upc' = "failed"
          /\ uresult' = Thrown("init_request")
          /\ UNCHANGED <<uploadFileId, fd, openCount, i, initPayload>>
       \/ \E payload \in InitPayloads :
            /\ net' = Append(net, Resp("init", 0, TRUE))
            /\ initPayload' = payload
            /\ IF InitAccepted(payload)
               THEN /\ uploadFileId' = InitUploadFileId(payload)
                    /\ fd' = "open"
                    /\ openCount' = openCount + 1
                    /\ i' = 1
                    /\ upc' = "loop"
                    /\ UNCHANGED uresult
               ELSE /\ upc' = "failed"
                    /\ uresult' = Thrown("missing_uploadFileId")
                    /\ UNCHANGED <<uploadFileId, fd, openCount, i>>
    /\ UNCHANGED <<isFile, fileSize, diskSize, sliceSize, chunkSize, chunkCount,
                   closeCount, chunkBuffer, md5PartHexUpper, fileMd5Hasher,
                   reads, urlReqs, putReqs, commitReqs, commitPayload>>

\* faulty variant: no finally block, the descriptor leaks on a throw
ThrowFromLoopNoFinally(err) ==
    /\ upc' = "failed"
    /\ uresult' = Thrown(err)
    /\ UNCHANGED <<fd, closeCount>>

\* the finally block of lines 640-642, on a throw out of the part loop
ThrowFromLoop(err) ==
    /\ fd' = "closed"
    /\ closeCount' = closeCount + 1
    /\ upc' = "failed"
    /\ uresult' = Thrown(err)

\* lines 595-618: read part i, hash it, ask for its upload URL
UPartHash ==
    /\ UNCHANGED othersOfUpload
    /\ upc = "loop"
    /\ i <= chunkCount
    /\ LET offset == PartOffset(i, chunkSize)
           size == PartSize(i, fileSize, chunkSize)
           readBytes == ReadBytes(offset, size, diskSize)
           chunk == FileBytes(offset, readBytes)
       IN \E r \in {"ok", "eio"} :
            IF r = "eio"
            THEN /\ ThrowFromLoop("read")
                 /\ UNCHANGED <<chunkBuffer, md5PartHexUpper, fileMd5Hasher,
                                reads, net, urlReqs>>
            ELSE /\ chunkBuffer' = chunk
                 /\ reads' = Append(reads, [part |-> i, offset |-> offset,
                                            size |-> size, readBytes |-> readBytes])
                 /\ md5PartHexUpper' = PushPartMd5(md5PartHexUpper, chunk)
                 /\ fileMd5Hasher' = Concat(fileMd5Hasher, chunk)
                 /\ net' = net \o <<HashEv(i), Req("geturl", i)>>
                 /\ urlReqs' = Append(urlReqs,
                                      [part |-> i, md5 |-> Base64(Md5(chunk)),
                                       uploadFileId |-> uploadFileId])
                 /\ upc' = "url_wait"
                 /\ UNCHANGED <<fd, closeCount, uresult>>
    /\ UNCHANGED <<isFile, fileSize, diskSize, sliceSize, chunkSize, chunkCount,
                   i, uploadFileId, openCount, putReqs, commitReqs, initPayload, commitPayload>>

\* faulty variant: the PUT is sent without the bytes
PutBodyEmpty(buffer) == NoBytes

\* line 633: the body of the PUT is chunkBuffer
PutBody(buffer) == buffer

\* lines 608-634: the URL response, requestURL, and the PUT of the chunk
UUrlResponse ==
    /\ UNCHANGED othersOfUpload
    /\ upc = "url_wait"
    /\ \E o \in {"ok", "fail", "missing"} :
         /\ net' = IF o = "ok"
                   THEN net \o <<Resp("geturl", i, TRUE), Req("put", i)>>
                   ELSE Append(net, Resp("geturl", i, o # "fail"))
         /\ IF o = "ok"
            THEN /\ putReqs' = Append(putReqs, [part |-> i,
                                                body |-> PutBody(chunkBuffer)])
                 /\ upc' = "put_wait"
                 /\ UNCHANGED <<fd, closeCount, uresult>>
            ELSE /\ ThrowFromLoop(IF o = "fail" THEN "geturl_request"
                                  ELSE "missing_url")
                 /\ UNCHANGED putReqs
    /\ UNCHANGED <<isFile, fileSize, diskSize, sliceSize, chunkSize, chunkCount,
                   i, uploadFileId, openCount, chunkBuffer, md5PartHexUpper,
                   fileMd5Hasher, reads, urlReqs, commitReqs, initPayload, commitPayload>>

\* faulty variant: putResp.ok is not looked at
AfterPutIgnoreStatus(o) ==
    /\ i' = i + 1
    /\ upc' = "loop"
    /\ UNCHANGED <<fd, closeCount, uresult>>

\* faulty variant: the loop counter advances by two
AfterPutSkipPart(o) ==
    IF o = "ok"
    THEN /\ i' = i + 2
         /\ upc' = "loop"
         /\ UNCHANGED <<fd, closeCount, uresult>>
    ELSE /\ ThrowFromLoop("put")
         /\ UNCHANGED i

\* lines 635-639: the PUT response; a failed PUT throws, a good one loops
AfterPut(o) ==
    IF o = "ok"
    THEN /\ i' = i + 1
         /\ upc' = "loop"
         /\ UNCHANGED <<fd, closeCount, uresult>>
    ELSE /\ ThrowFromLoop("put")
         /\ UNCHANGED i

UPutResponse ==
    /\ UNCHANGED othersOfUpload
    /\ upc = "put_wait"
    /\ \E o \in {"ok", "non2xx", "reject"} :
         /\ net' = Append(net, Resp("put", i, o = "ok"))
         /\ AfterPut(o)
    /\ UNCHANGED <<isFile, fileSize, diskSize, sliceSize, chunkSize, chunkCount,
                   uploadFileId, openCount, chunkBuffer, md5PartHexUpper,
                   fileMd5Hasher, reads, urlReqs, putReqs, commitReqs, initPayload, commitPayload>>

\* lines 640-662: the loop ends, the file is closed, the commit is requested
CommitForm ==
    LET fileMd5 == HexLower(Md5(fileMd5Hasher))
    IN [uploadFileId |-> uploadFileId,
        fileMd5 |-> fileMd5,
        sliceMd5 |-> SliceMd5Of(fileSize, chunkSize, fileMd5, md5PartHexUpper)]

ULoopExit ==
    /\ UNCHANGED othersOfUpload
    /\ upc = "loop"
    /\ i > chunkCount
    /\ fd' = "closed"
    /\ closeCount' = closeCount + 1
    /\ commitReqs' = Append(commitReqs, CommitForm)
    /\ net' = Append(net, Req("commit", 0))
    /\ upc' = "commit_wait"
    /\ UNCHANGED <<isFile, fileSize, diskSize, sliceSize, chunkSize, chunkCount,
                   i, uploadFileId, openCount, chunkBuffer, md5PartHexUpper,
                   fileMd5Hasher, reads, urlReqs, putReqs, uresult, initPayload,
                   commitPayload>>

\* lines 649-676: the commit response and the value returned
UCommitResponse ==
    /\ UNCHANGED othersOfUpload
    /\ upc = "commit_wait"
    /\ \/ /\ net' = Append(net, Resp("commit", 0, FALSE))
          /\ upc' = "failed"
          /\ uresult' = Thrown("commit_request")
          /\ UNCHANGED commitPayload
       \/ \E payload \in CommitPayloads :
            LET result == CommitResult(payload, fileSize, chunkCount)
            IN /\ net' = Append(net, Resp("commit", 0, TRUE))
               /\ commitPayload' = payload
               /\ uresult' = result
               /\ upc' = IF result.state = "returned" THEN "done" ELSE "failed"
    /\ UNCHANGED <<isFile, fileSize, diskSize, sliceSize, chunkSize, chunkCount,
                   i, uploadFileId, fd, openCount, closeCount, chunkBuffer,
                   md5PartHexUpper, fileMd5Hasher, reads, urlReqs, putReqs,
                   commitReqs, initPayload>>

NextUpload ==
    \/ UStart
    \/ UInitResponse
    \/ UPartHash
    \/ UUrlResponse
    \/ UPutResponse
    \/ ULoopExit
    \/ UCommitResponse

SpecUpload == InitUpload /\ [][NextUpload]_vars

UploadIdle ==
    /\ isFile = FALSE
    /\ fileSize = 0
    /\ diskSize = 0
    /\ sliceSize = 0
    /\ chunkSize = 0
    /\ chunkCount = 0
    /\ upc = "idle"
    /\ i = 0
    /\ uploadFileId = <<>>
    /\ fd = "none"
    /\ openCount = 0
    /\ closeCount = 0
    /\ chunkBuffer = NoBytes
    /\ md5PartHexUpper = <<>>
    /\ fileMd5Hasher = NoBytes
    /\ reads = <<>>
    /\ net = <<>>
    /\ urlReqs = <<>>
    /\ putReqs = <<>>
    /\ commitReqs = <<>>
    /\ uresult = NoResult
    /\ initPayload = NoInitPayload
    /\ commitPayload = NoCommitPayload

-----------------------------------------------------------------------------
(* Folder names.  A name is a sequence of characters; " " stands for the   *)
(* white space trim() removes, "/" and "\\" are the path separators.       *)

IsSeparator(c) == c \in {"/", "\\"}

RECURSIVE DropSeparators(_)
DropSeparators(s) ==
    IF s = <<>> THEN <<>>
    ELSE IF IsSeparator(Head(s)) THEN DropSeparators(Tail(s)) ELSE s

\* replace(/[\\/]+/g, "_"): each run of separators becomes one "_"
RECURSIVE ReplaceSeparators(_)
ReplaceSeparators(s) ==
    IF s = <<>> THEN <<>>
    ELSE IF IsSeparator(Head(s))
         THEN <<"_">> \o ReplaceSeparators(DropSeparators(Tail(s)))
         ELSE <<Head(s)>> \o ReplaceSeparators(Tail(s))

normalizeFolderName(value) == ReplaceSeparators(Trim(value))

-----------------------------------------------------------------------------
(* The backend's folders and the listing primitive.                        *)

PAGE_SIZE == 60

MAX_FOLDER_PAGES == 20

RECURSIVE MaxId(_)
MaxId(fs) == IF fs = <<>> THEN 0 ELSE Max(Head(fs).id, MaxId(Tail(fs)))

HasChild(fs, parent, name) ==
    \E k \in 1..Len(fs) : fs[k].parent = parent /\ fs[k].name = name

\* the backend creates a folder; it keeps one folder per name in a parent,
\* and lists the one touched last first
CreateFolder(fs, parent, name) ==
    IF HasChild(fs, parent, name) THEN fs
    ELSE <<[id |-> MaxId(fs) + 1, parent |-> parent, name |-> name]>> \o fs

\* the answer to listFiles.action for one page: fileListAO
ListPage(fs, parent, pageNum) ==
    LET IsChild(f) == f.parent = parent
        children == SelectSeq(fs, IsChild)
        first == (pageNum - 1) * PAGE_SIZE + 1
        last == Min(pageNum * PAGE_SIZE, Len(children))
    IN [folderList |-> SubSeq(children, first, last), count |-> Len(children)]

\* lines 255-261: the rows kept of a page, with firstString's trim
RECURSIVE KeptRows(_)
KeptRows(folderList) ==
    IF folderList = <<>> THEN <<>>
    ELSE LET item == Head(folderList)
             name == Trim(item.name)
         IN (IF name = <<>> THEN <<>> ELSE <<[id |-> item.id, name |-> name]>>)
            \o KeptRows(Tail(folderList))

\* faulty variant: only an empty page ends the paging
LastPageWhenEmpty(listLength, totalCount, pageNum, pageSize) ==
    listLength = 0

\* lines 263-266 and 310-313: the two breaks of the paging loop
LastPage(listLength, totalCount, pageNum, pageSize) ==
    \/ listLength = 0
    \/ totalCount <= 0
    \/ pageNum >= Max(1, CeilDiv(totalCount, pageSize))

\* lines 235-268: the paging loop from page pageNum on
RECURSIVE ListFoldersFrom(_, _, _, _)
ListFoldersFrom(fs, parent, pageNum, acc) ==
    IF pageNum > MAX_FOLDER_PAGES THEN acc
    ELSE LET page == ListPage(fs, parent, pageNum)
             totalCount == page.count
             got == [folders |-> acc.folders \o KeptRows(page.folderList),
                     pages |-> acc.pages + 1]
         IN IF LastPage(Len(page.folderList), totalCount, pageNum, PAGE_SIZE)
            THEN got
            ELSE ListFoldersFrom(fs, parent, pageNum + 1, got)

\* listFolders: the folders collected and the number of pages requested
listFolders(fs, parent) ==
    ListFoldersFrom(fs, parent, 1, [folders |-> <<>>, pages |-> 0])

NoFolder == [id |-> 0, name |-> <<>>]

\* Array.prototype.find(item => item.name === folderName)
FindFolder(list, name) ==
    IF \E k \in 1..Len(list) : list[k].name = name
    THEN list[CHOOSE k \in 1..Len(list) :
                /\ list[k].name = name
                /\ \A j \in 1..(k - 1) : list[j].name # name]
    ELSE NoFolder

-----------------------------------------------------------------------------
(* createFolderCandidates, ensureFolderPath, findFolderPath                *)

\* faulty variant: the last candidate is left out
CandidatesWithoutLast ==
    << [endpoint |-> "/api/open/file/createFolder.action", method |-> "POST",
        form |-> "folderName,parentFolderId"],
       [endpoint |-> "/api/open/file/createFolder.action", method |-> "POST",
        form |-> "name,parentFolderId"],
       [endpoint |-> "/api/open/file/createFolder.action", method |-> "POST",
        form |-> "folderName,folderId"],
       [endpoint |-> "/api/open/batch/createBatchTask.action", method |-> "POST",
        form |-> "type=CREATE_FOLDER,targetFolderId,taskInfos"] >>

\* lines 323-360: the candidates, in order
Candidates ==
    << [endpoint |-> "/api/open/file/createFolder.action", method |-> "POST",
        form |-> "folderName,parentFolderId"],
       [endpoint |-> "/api/open/file/createFolder.action", method |-> "POST",
        form |-> "name,parentFolderId"],
       [endpoint |-> "/api/open/file/createFolder.action", method |-> "POST",
        form |-> "folderName,folderId"],
       [endpoint |-> "/api/open/batch/createBatchTask.action", method |-> "POST",
        form |-> "type=CREATE_FOLDER,targetFolderId,taskInfos"],
       [endpoint |-> "/api/open/batch/createBatchTask.action", method |-> "POST",
        form |-> "type=MKDIR,targetFolderId,taskInfos"] >>

\* What the backend does with a creation candidate: it refuses it, it
\* accepts it and creates the folder, or it accepts it and no folder shows.
\* The contract is unknown to the client and the same throughout a run.
Outcomes == {"fail", "ok_create", "ok_noop"}

ListEv(parent, name, ok, listed) ==
    [ev |-> "list", parent |-> parent, name |-> name, cand |-> 0, ok |-> ok,
     rows |-> listed.folders, pages |-> listed.pages]

CreateEv(parent, name, c, ok) ==
    [ev |-> "create", parent |-> parent, name |-> name, cand |-> c, ok |-> ok,
     rows |-> <<>>, pages |-> 0]

FailedListing == [folders |-> <<>>, pages |-> 1]

FolderThrown(err, name) == [state |-> "thrown", error |-> err, name |-> name]

\* bounds of the folder model
MaxSegments == 2

RawNames == { <<" ">>, <<"a">>, <<"a", " ">>, <<"b", "/", "\\", "c">> }

Paths == UNION {[1..n -> RawNames] : n \in 0..MaxSegments}

Servers ==
    { <<>>,
      << [id |-> 2, parent |-> 1, name |-> <<"b", "_", "c">>],
         [id |-> 1, parent |-> ROOT_FOLDER_ID, name |-> <<"a">>],
         [id |-> 3, parent |-> ROOT_FOLDER_ID, name |-> <<"a">>] >> }

InitFolder ==
    /\ RunUploadIdle
    /\ SignIdle
    /\ AwaitIdle
    /\ PagingIdle
    /\ MainIdle
    /\ DeepIdle
    /\ ShareIdle
    /\ DownloadIdle
    /\ RsaIdle
    /\ UploadIdle
    /\ ListVersionsIdle
    /\ fcall \in {"ensure", "find"}
    /\ parts \in Paths
    /\ folders \in Servers
    /\ folders0 = folders
    /\ contract = [c \in 1..Len(Candidates) |-> "unknown"]
    /\ fpc = "seg"
    /\ idx = 1
    /\ parentFolderId = ROOT_FOLDER_ID
    /\ trace = <<>>
    /\ cand = 0
    /\ attempts = <<>>
    /\ flog = <<>>
    /\ fresult = NoFolderResult
    /\ callNo = 1
    /\ firstResult = NoFolderResult

\* faulty variant: the listing is searched for the raw part
LookupNameRaw(rawPart) == rawPart

\* lines 386, 390: the name the first listing is searched for
LookupName(rawPart) == normalizeFolderName(rawPart)

\* faulty variant: the candidates stop at the first one accepted
NextCandidateStopOnOk(c, ok) == IF ok THEN Len(Candidates) + 1 ELSE c + 1

\* lines 362-376: the loop over the candidates goes on whatever the outcome
NextCandidate(c, ok) == c + 1

\* line 387: a part whose name is empty is passed over
ESkip ==
    /\ UNCHANGED othersOfFolder
    /\ fcall = "ensure"
    /\ fpc = "seg"
    /\ idx <= Len(parts)
    /\ normalizeFolderName(parts[idx]) = <<>>
    /\ idx' = idx + 1
    /\ UNCHANGED <<fcall, parts, folders, folders0, contract, fpc,
                   parentFolderId, trace, cand, attempts, flog, fresult,
                   callNo, firstResult>>

\* lines 389-391, 402-415: the first listing of the parent
EList ==
    /\ UNCHANGED othersOfFolder
    /\ fcall = "ensure"
    /\ fpc = "seg"
    /\ idx <= Len(parts)
    /\ LET folderName == normalizeFolderName(parts[idx])
       IN /\ folderName # <<>>
          /\ \E o \in {"ok", "fail"} :
               IF o = "fail"
               THEN /\ flog' = Append(flog, ListEv(parentFolderId, folderName,
                                                   FALSE, FailedListing))
                    /\ fpc' = "thrown"
                    /\ fresult' = FolderThrown("list_request", folderName)
                    /\ UNCHANGED <<idx, parentFolderId, trace, cand, attempts>>
               ELSE LET listed == listFolders(folders, parentFolderId)
                        found == FindFolder(listed.folders, LookupName(parts[idx]))
                    IN /\ flog' = Append(flog, ListEv(parentFolderId, folderName,
                                                      TRUE, listed))
                       /\ IF found = NoFolder
                          THEN /\ fpc' = "create"
                               /\ cand' = 1
                               /\ attempts' = <<>>
                               /\ UNCHANGED <<idx, parentFolderId, trace, fresult>>
                          ELSE /\ trace' = Append(trace,
                                    [step |-> "ensure_folder",
                                     parent_folder_id |-> parentFolderId,
                                     folder_name |-> folderName,
                                     created |-> FALSE,
                                     found |-> TRUE])
                               /\ parentFolderId' = found.id
                               /\ idx' = idx + 1
                               /\ UNCHANGED <<fpc, cand, attempts, fresult>>
    /\ UNCHANGED <<fcall, parts, folders, folders0, contract, callNo, firstResult>>

\* lines 362-376: one creation candidate
ECreate ==
    /\ UNCHANGED othersOfFolder
    /\ fcall = "ensure"
    /\ fpc = "create"
    /\ cand <= Len(Candidates)
    /\ LET folderName == normalizeFolderName(parts[idx])
           item == Candidates[cand]
       IN \E o \in (IF contract[cand] = "unknown" THEN Outcomes
                    ELSE {contract[cand]}) :
            /\ contract' = [contract EXCEPT ![cand] = o]
            /\ folders' = IF o = "ok_create"
                          THEN CreateFolder(folders, parentFolderId, folderName)
                          ELSE folders
            /\ flog' = Append(flog, CreateEv(parentFolderId, folderName, cand,
                                             o # "fail"))
            /\ attempts' = Append(attempts,
                 IF o = "fail"
                 THEN [ok |-> FALSE, endpoint |-> item.endpoint,
                       method |-> item.method, error |-> "request"]
                 ELSE [ok |-> TRUE, endpoint |-> item.endpoint,
                       method |-> item.method])
            /\ cand' = NextCandidate(cand, o # "fail")
            /\ fpc' = IF NextCandidate(cand, o # "fail") > Len(Candidates)
                      THEN "relist" ELSE "create"
    /\ UNCHANGED <<fcall, parts, folders0, idx, parentFolderId, trace, fresult,
                   callNo, firstResult>>

\* lines 393-401, 412-415: the listing after the candidates
ERelist ==
    /\ UNCHANGED othersOfFolder
    /\ fcall = "ensure"
    /\ fpc = "relist"
    /\ LET folderName == normalizeFolderName(parts[idx])
       IN \E o \in {"ok", "fail"} :
            IF o = "fail"
            THEN /\ flog' = Append(flog, ListEv(parentFolderId, folderName,
                                                FALSE, FailedListing))
                 /\ fpc' = "thrown"
                 /\ fresult' = FolderThrown("list_request", folderName)
                 /\ UNCHANGED <<idx, parentFolderId, trace>>
            ELSE LET refreshed == listFolders(folders, parentFolderId)
                     found == FindFolder(refreshed.folders, folderName)
                 IN /\ flog' = Append(flog, ListEv(parentFolderId, folderName,
                                                   TRUE, refreshed))
                    /\ trace' = Append(trace,
                         [step |-> "ensure_folder",
                          parent_folder_id |-> parentFolderId,
                          folder_name |-> folderName,
                          created |-> found # NoFolder,
                          attempts |-> attempts])
                    /\ IF found = NoFolder
                       THEN /\ fpc' = "thrown"
                            /\ fresult' = FolderThrown("cannot_create_or_locate",
                                                       folderName)
                            /\ UNCHANGED <<idx, parentFolderId>>
                       ELSE /\ parentFolderId' = found.id
                            /\ idx' = idx + 1
                            /\ fpc' = "seg"
                            /\ UNCHANGED fresult
    /\ UNCHANGED <<fcall, parts, folders, folders0, contract, cand, attempts,
                   callNo, firstResult>>

\* line 418: every part is done
EReturn ==
    /\ UNCHANGED othersOfFolder
    /\ fcall = "ensure"
    /\ fpc = "seg"
    /\ idx > Len(parts)
    /\ fpc' = "returned"
    /\ fresult' = [state |-> "returned", folderId |-> parentFolderId,
                   trace |-> trace]
    /\ UNCHANGED <<fcall, parts, folders, folders0, contract, idx,
                   parentFolderId, trace, cand, attempts, flog, callNo,
                   firstResult>>

\* ensureFolderPath is called again with the same parts
ESecondCall ==
    /\ UNCHANGED othersOfFolder
    /\ fcall = "ensure"
    /\ fpc = "returned"
    /\ callNo = 1
    /\ callNo' = 2
    /\ firstResult' = fresult
    /\ folders0' = folders
    /\ fpc' = "seg"
    /\ idx' = 1
    /\ parentFolderId' = ROOT_FOLDER_ID
    /\ trace' = <<>>
    /\ cand' = 0
    /\ attempts' = <<>>
    /\ flog' = <<>>
    /\ fresult' = NoFolderResult
    /\ UNCHANGED <<fcall, parts, folders, contract>>

\* line 426: a part whose name is empty is passed over
FSkip ==
    /\ UNCHANGED othersOfFolder
    /\ fcall = "find"
    /\ fpc = "seg"
    /\ idx <= Len(parts)
    /\ normalizeFolderName(parts[idx]) = <<>>
    /\ idx' = idx + 1
    /\ UNCHANGED <<fcall, parts, folders, folders0, contract, fpc,
                   parentFolderId, trace, cand, attempts, flog, fresult,
                   callNo, firstResult>>

\* faulty variant: a missing folder is created and the walk goes on in it
FindMissingCreates(folderName, newTrace) ==
    /\ folders' = CreateFolder(folders, parentFolderId, folderName)
    /\ parentFolderId' = MaxId(folders) + 1
    /\ idx' = idx + 1
    /\ UNCHANGED <<fpc, fresult>>

\* lines 435-443: the first missing folder ends the walk
FindMissing(folderName, newTrace) ==
    /\ fpc' = "returned"
    /\ fresult' = [state |-> "returned", ok |-> FALSE, folderId |-> "",
                   trace |-> newTrace, reason |-> "folder_not_found",
                   missing_name |-> folderName]
    /\ UNCHANGED <<folders, idx, parentFolderId>>

\* lines 427-444: the listing of the parent
FList ==
    /\ UNCHANGED othersOfFolder
    /\ fcall = "find"
    /\ fpc = "seg"
    /\ idx <= Len(parts)
    /\ LET folderName == normalizeFolderName(parts[idx])
       IN /\ folderName # <<>>
          /\ \E o \in {"ok", "fail"} :
               IF o = "fail"
               THEN /\ flog' = Append(flog, ListEv(parentFolderId, folderName,
                                                   FALSE, FailedListing))
                    /\ fpc' = "thrown"
                    /\ fresult' = FolderThrown("list_request", folderName)
                    /\ UNCHANGED <<folders, idx, parentFolderId, trace>>
               ELSE LET listed == listFolders(folders, parentFolderId)
                        found == FindFolder(listed.folders, folderName)
                        newTrace == Append(trace,
                                      [step |-> "find_folder",
                                       parent_folder_id |-> parentFolderId,
                                       folder_name |-> folderName,
                                       found |-> found # NoFolder])
                    IN /\ flog' = Append(flog, ListEv(parentFolderId, folderName,
                                                      TRUE, listed))
                       /\ trace' = newTrace
                       /\ IF found = NoFolder
                          THEN FindMissing(folderName, newTrace)
                          ELSE /\ parentFolderId' = found.id
                               /\ idx' = idx + 1
                               /\ UNCHANGED <<folders, fpc, fresult>>
    /\ UNCHANGED <<fcall, parts, folders0, contract, cand, attempts, callNo,
                   firstResult>>

\* lines 446-450: every part was found
FReturn ==
    /\ UNCHANGED othersOfFolder
    /\ fcall = "find"
    /\ fpc = "seg"
    /\ idx > Len(parts)
    /\ fpc' = "returned"
    /\ fresult' = [state |-> "returned", ok |-> TRUE,
                   folderId |-> parentFolderId, trace |-> trace]
    /\ UNCHANGED <<fcall, parts, folders, folders0, contract, idx,
                   parentFolderId, trace, cand, attempts, flog, callNo,
                   firstResult>>

NextFolder ==
    \/ ESkip
    \/ EList
    \/ ECreate
    \/ ERelist
    \/ EReturn
    \/ ESecondCall
    \/ FSkip
    \/ FList
    \/ FReturn

SpecFolder == InitFolder /\ [][NextFolder]_vars

-----------------------------------------------------------------------------
(* runListVersions and listFiles.  The action resolves                     *)
(* FreedeckCloudSaves/<remote_folder_parts> with findFolderPath and lists  *)
(* the archives of the folder found.                                       *)

\* the application's root folder; the name counts as one character, it has
\* neither white space nor separators
APP_ROOT == <<"FreedeckCloudSaves">>

FILE_PAGE_SIZE == 60

MAX_FILE_PAGES == 30

RECURSIVE NormalizeAll(_)
NormalizeAll(items) ==
    IF items = <<>> THEN <<>>
    ELSE <<normalizeFolderName(Head(items))>> \o NormalizeAll(Tail(items))

\* lines 803-806: map(normalizeFolderName).filter(Boolean)
normalizeRemoteFolderParts(value) ==
    IF ~value.isArray THEN <<>>
    ELSE LET NonEmpty(name) == name # <<>>
         IN SelectSeq(NormalizeAll(value.items), NonEmpty)

\* the answer to listFiles.action for one page of files: fileListAO; a
\* sticky backend answers every page with its first page
FilePage(server, n) ==
    LET first == IF server.sticky THEN 1 ELSE (n - 1) * FILE_PAGE_SIZE + 1
        last == IF server.sticky THEN Min(FILE_PAGE_SIZE, Len(server.rows))
                ELSE Min(n * FILE_PAGE_SIZE, Len(server.rows))
    IN [fileList |-> SubSeq(server.rows, first, last), count |-> server.count]

\* lines 295-307: the rows kept of a page; id 0 is a row without an id
RECURSIVE KeptFiles(_)
KeptFiles(fileList) ==
    IF fileList = <<>> THEN <<>>
    ELSE LET item == Head(fileList)
             name == Trim(item.name)
         IN (IF item.id = 0 \/ name = <<>> THEN <<>>
             ELSE <<[file_id |-> item.id, name |-> name]>>)
            \o KeptFiles(Tail(fileList))

\* String.prototype.toLowerCase on the letters the model's names use
ToLowerChar(c) ==
    CASE c = "Z" -> "z"
      [] c = "S" -> "s"
      [] OTHER -> c

ToLower(name) == [k \in 1..Len(name) |-> ToLowerChar(name[k])]

\* line 835: name.toLowerCase().endsWith(".7z")
IsArchive(item) ==
    LET lower == ToLower(item.name)
        n == Len(lower)
    IN n >= 3 /\ SubSeq(lower, n - 2, n) = <<".", "7", "z">>

ListThrown(err) == [state |-> "thrown", error |-> err]

\* the payloads and the backends of the list-versions model
Credentials == { <<>>, <<" ">>, <<"k">> }

RemoteFolderParts ==
    {[isArray |-> FALSE, items |-> <<>>]}
      \cup {[isArray |-> TRUE, items |-> ps] : ps \in Paths}

ListServers ==
    { <<>>,
      << [id |-> 1, parent |-> ROOT_FOLDER_ID, name |-> APP_ROOT] >>,
      << [id |-> 3, parent |-> 2, name |-> <<"b", "_", "c">>],
         [id |-> 2, parent |-> 1, name |-> <<"a">>],
         [id |-> 1, parent |-> ROOT_FOLDER_ID, name |-> APP_ROOT] >> }

ArchiveName == <<"s", ".", "7", "z">>

FileServers ==
    { NoFileServer,
      [rows |-> << [id |-> 1, name |-> ArchiveName],
                   [id |-> 2, name |-> <<" ", "S", ".", "7", "Z">>],
                   [id |-> 3, name |-> <<"n", ".", "t", "x", "t">>],
                   [id |-> 0, name |-> ArchiveName],
                   [id |-> 5, name |-> <<" ">>] >>,
       count |-> 5, sticky |-> FALSE],
      [rows |-> [k \in 1..(FILE_PAGE_SIZE + 1) |-> [id |-> k, name |-> ArchiveName]],
       count |-> FILE_PAGE_SIZE + 1, sticky |-> FALSE],
      [rows |-> << [id |-> 1, name |-> ArchiveName] >>,
       count |-> 1000 * FILE_PAGE_SIZE, sticky |-> TRUE] }

InitListVersions ==
    /\ RunUploadIdle
    /\ SignIdle
    /\ AwaitIdle
    /\ PagingIdle
    /\ MainIdle
    /\ DeepIdle
    /\ ShareIdle
    /\ DownloadIdle
    /\ RsaIdle
    /\ UploadIdle
    /\ fcall = "none"
    /\ parts = <<>>
    /\ folders \in ListServers
    /\ folders0 = folders
    /\ contract = <<>>
    /\ fpc = "idle"
    /\ idx = 0
    /\ parentFolderId = ROOT_FOLDER_ID
    /\ trace = <<>>
    /\ cand = 0
    /\ attempts = <<>>
    /\ flog = <<>>
    /\ fresult = NoFolderResult
    /\ callNo = 0
    /\ firstResult = NoFolderResult
    /\ lpc = "start"
    /\ lpayload \in [cookie : Credentials, session_key : Credentials,
                     remote_folder_parts : RemoteFolderParts]
    /\ fileServer \in FileServers
    /\ filePageNum = 0
    /\ lfiles = <<>>
    /\ fileReqs = <<>>
    /\ lresult = [state |-> "running"]

\* lines 809-814: the fields runListVersions requires, in the order checked
ListMissing(payload) ==
    IF Trim(payload.cookie) = <<>> THEN "missing_cookie"
    ELSE IF Trim(payload.session_key) = <<>> THEN "missing_session_key"
    ELSE ""

\* lines 809-820: the payload is validated and findFolderPath is called
LStart ==
    /\ UNCHANGED othersOfList
    /\ lpc = "start"
    /\ LET remoteFolderParts ==
               normalizeRemoteFolderParts(lpayload.remote_folder_parts)
       IN IF ListMissing(lpayload) # ""
          THEN /\ lpc' = "done"
               /\ lresult' = ListThrown(ListMissing(lpayload))
               /\ UNCHANGED fvars
          ELSE /\ lpc' = "finding"
               /\ fcall' = "find"
               /\ parts' = <<APP_ROOT>> \o remoteFolderParts
               /\ fpc' = "seg"
               /\ idx' = 1
               /\ parentFolderId' = ROOT_FOLDER_ID
               /\ trace' = <<>>
               /\ flog' = <<>>
               /\ fresult' = NoFolderResult
               /\ UNCHANGED <<folders, folders0, contract, cand, attempts,
                              callNo, firstResult, lresult>>
    /\ UNCHANGED <<lpayload, fileServer, filePageNum, lfiles, fileReqs>>

\* faulty variant: the folder result is never taken as a miss
FolderMissingNever(folderResult) == FALSE

\* line 821: if (!folderResult.ok)
FolderMissing(folderResult) == ~folderResult.ok

\* lines 821-829: findFolderPath has returned or thrown
LFindDone ==
    /\ UNCHANGED othersOfList
    /\ lpc = "finding"
    /\ fpc \in {"returned", "thrown"}
    /\ IF fpc = "thrown"
       THEN /\ lpc' = "done"
            /\ lresult' = ListThrown(fresult.error)
            /\ UNCHANGED filePageNum
       ELSE IF FolderMissing(fresult)
       THEN /\ lpc' = "done"
            /\ lresult' = [state |-> "returned", exists |-> FALSE,
                           folder_id |-> "", files |-> <<>>,
                           trace |-> fresult.trace,
                           reason |-> "folder_not_found"]
            /\ UNCHANGED filePageNum
       ELSE /\ lpc' = "files"
            /\ filePageNum' = 1
            /\ UNCHANGED lresult
    /\ UNCHANGED <<fvars, lpayload, fileServer, lfiles, fileReqs>>

\* lines 275-315, 835-842: one page of listFiles; after the last page the
\* archives are kept and the action returns
LFilesPage ==
    /\ UNCHANGED othersOfList
    /\ lpc = "files"
    /\ filePageNum <= MAX_FILE_PAGES
    /\ fileReqs' = Append(fileReqs, [folderId |-> fresult.folderId,
                                     page |-> filePageNum])
    /\ \E o \in {"ok", "fail"} :
         IF o = "fail"
         THEN /\ lpc' = "done"
              /\ lresult' = ListThrown("list_files_request")
              /\ UNCHANGED <<filePageNum, lfiles>>
         ELSE LET fileListAO == FilePage(fileServer, filePageNum)
                  fileList == fileListAO.fileList
                  totalCount == fileListAO.count
                  files == lfiles \o KeptFiles(fileList)
                  last == \/ LastPage(Len(fileList), totalCount, filePageNum,
                                      FILE_PAGE_SIZE)
                          \/ filePageNum + 1 > MAX_FILE_PAGES
              IN /\ lfiles' = files
                 /\ IF last
                    THEN /\ lpc' = "done"
                         /\ lresult' = [state |-> "returned", exists |-> TRUE,
                                        folder_id |-> fresult.folderId,
                                        files |-> SelectSeq(files, IsArchive),
                                        trace |-> fresult.trace]
                         /\ UNCHANGED filePageNum
                    ELSE /\ filePageNum' = filePageNum + 1
                         /\ UNCHANGED <<lpc, lresult>>
    /\ UNCHANGED <<fvars, lpayload, fileServer>>

NextListVersions ==
    \/ LStart
    \/ FList
    \/ FReturn
    \/ LFindDone
    \/ LFilesPage

SpecListVersions == InitListVersions /\ [][NextListVersions]_vars

-----------------------------------------------------------------------------
(* getRsaKey.  A text is a sequence of characters, <<>> stands for a field  *)
(* that is absent or empty.                                                 *)

\* lines 97-116: ensureSuccessPayload does not throw
SuccessPayload(resp) ==
    /\ resp.kind = "payload"
    /\ resp.code \in {"", "0", "SUCCESS", "success"}

\* lines 455-470: the candidates, in order
RsaCandidates ==
    << [source |-> "cloud_unsigned", host |-> "https://cloud.189.cn",
        path |-> "/api/security/generateRsaKey.action", signed |-> FALSE],
       [source |-> "api_signed", host |-> "https://api.cloud.189.cn",
        path |-> "/security/generateRsaKey.action", signed |-> TRUE] >>

\* The answers of the backend to a key request: the request fails (network,
\* status, not JSON), the body is not an object, or it is a payload with a
\* result code and key material at the top level and under data.  The
\* material of each candidate and place is its own.
KeyText(kind, c, place) == <<kind, RsaCandidates[c].source, place>>

NoData == [pubKey |-> <<>>, pkId |-> <<>>]

RsaResponses(c) ==
    { [kind |-> k, code |-> "", pubKey |-> <<>>, pkId |-> <<>>, data |-> NoData]
        : k \in {"error", "not_object"} }
    \cup
    [ kind : {"payload"},
      code : {"", "0", "E1"},
      pubKey : {<<>>, <<" ">>, KeyText("pub", c, "top")},
      pkId : {<<>>, <<" ">>, KeyText("id", c, "top")},
      data : [pubKey : {<<>>, KeyText("pub", c, "data")},
              pkId : {<<>>, KeyText("id", c, "data")}] ]

InitRsa ==
    /\ RunUploadIdle
    /\ SignIdle
    /\ AwaitIdle
    /\ PagingIdle
    /\ MainIdle
    /\ DeepIdle
    /\ ShareIdle
    /\ DownloadIdle
    /\ UploadIdle
    /\ FolderIdle
    /\ ListVersionsIdle
    /\ rpc = "cand"
    /\ rcand = 1
    /\ rattempts = <<>>
    /\ rreqs = <<>>
    /\ rresps = <<>>
    /\ rresult = [state |-> "running"]

\* faulty variant: a public key alone is taken
RsaCompletePubKeyOnly(pubKey, pkId) == pubKey # <<>>

\* line 479: if (pubKey && pkId)
RsaComplete(pubKey, pkId) == pubKey # <<>> /\ pkId # <<>>

\* faulty variant: only the requests that threw are recorded
RecordAttemptThrownOnly(list, source, message) ==
    IF message = "missing_pubKey_pkId" THEN list
    ELSE Append(list, [source |-> source, ok |-> FALSE, message |-> message])

\* lines 482-493: attempts.push
RecordAttempt(list, source, message) ==
    Append(list, [source |-> source, ok |-> FALSE, message |-> message])

\* lines 473-496: one turn of the loop over the candidates; after the last
\* candidate the error with the attempts is thrown
RTry ==
    /\ UNCHANGED othersOfRsa
    /\ rpc = "cand"
    /\ rcand <= Len(RsaCandidates)
    /\ LET candidate == RsaCandidates[rcand]
       IN \E resp \in RsaResponses(rcand) :
            LET pubKey == firstString(<<resp.pubKey, resp.data.pubKey>>)
                pkId == firstString(<<resp.pkId, resp.data.pkId>>)
                message == IF resp.kind = "error" THEN "request_failed"
                           ELSE IF resp.kind = "not_object" THEN "bad_format"
                           ELSE IF ~SuccessPayload(resp) THEN "bad_code"
                           ELSE "missing_pubKey_pkId"
                pushed == RecordAttempt(rattempts, candidate.source, message)
            IN /\ rreqs' = Append(rreqs, candidate)
               /\ rresps' = Append(rresps, resp)
               /\ IF SuccessPayload(resp) /\ RsaComplete(pubKey, pkId)
                  THEN /\ rpc' = "returned"
                       /\ rresult' = [state |-> "returned", pubKey |-> pubKey,
                                      pkId |-> pkId]
                       /\ UNCHANGED <<rcand, rattempts>>
                  ELSE /\ rattempts' = pushed
                       /\ rcand' = rcand + 1
                       /\ IF rcand + 1 > Len(RsaCandidates)
                          THEN /\ rpc' = "thrown"
                               /\ rresult' = [state |-> "thrown",
                                              error |-> "missing_pubKey_pkId",
                                              attempts |-> pushed]
                          ELSE UNCHANGED <<rpc, rresult>>

NextRsa == RTry

SpecRsa == InitRsa /\ [][NextRsa]_vars

-----------------------------------------------------------------------------
(* runDownloadFile: getCloudFileDownloadUrl, then downloadUrlToFile.       *)

\* lines 687-714: the candidates, in order; dt is the query's hint
DownloadCandidates ==
    << [api |-> "open_api", host |-> "https://cloud.189.cn",
        endpoint |-> "/api/open/file/getFileDownloadUrl.action", dt |-> "1"],
       [api |-> "open_api", host |-> "https://cloud.189.cn",
        endpoint |-> "/api/open/file/getFileDownloadUrl.action", dt |-> ""],
       [api |-> "api_signed", host |-> "https://api.cloud.189.cn",
        endpoint |-> "/open/file/getFileDownloadUrl.action", dt |-> "1"],
       [api |-> "api_signed", host |-> "https://api.cloud.189.cn",
        endpoint |-> "/open/file/getFileDownloadUrl.action", dt |-> ""] >>

CandidateTag == <<"c1", "c2", "c3", "c4">>

\* the URL a candidate's answer holds in a field; each is its own
UrlText(c, field) == <<"https:", CandidateTag[c], field>>

NoUrls == [fileDownloadUrl |-> <<>>, downloadUrl |-> <<>>, url |-> <<>>]

UrlPayload(code, top, data) ==
    [kind |-> "payload", code |-> code, fileDownloadUrl |-> top.fileDownloadUrl,
     downloadUrl |-> top.downloadUrl, url |-> top.url, data |-> data]

AllUrls(c, place) ==
    [fileDownloadUrl |-> UrlText(c, place \o ".fileDownloadUrl"),
     downloadUrl |-> UrlText(c, place \o ".downloadUrl"),
     url |-> UrlText(c, place \o ".url")]

\* The answers of the backend to a URL request: the request fails (network,
\* status 403, not JSON), the body is not an object, or it is a payload
\* with a result code and URLs at the top level and under data.
UrlResponses(c) ==
    { [kind |-> k, code |-> "", fileDownloadUrl |-> <<>>, downloadUrl |-> <<>>,
       url |-> <<>>, data |-> NoUrls] : k \in {"error", "not_object"} }
    \cup
    { UrlPayload("E1", AllUrls(c, "top"), NoUrls),
      UrlPayload("0", NoUrls, NoUrls),
      UrlPayload("", [NoUrls EXCEPT !.fileDownloadUrl = <<" ">>], NoUrls),
      UrlPayload("0", AllUrls(c, "top"), AllUrls(c, "data")),
      UrlPayload("", NoUrls, AllUrls(c, "data")) }
    \cup
    { UrlPayload("0", [NoUrls EXCEPT ![f] = UrlText(c, "top." \o f)], NoUrls)
        : f \in {"fileDownloadUrl", "downloadUrl", "url"} }
    \cup
    { UrlPayload("", [NoUrls EXCEPT !.url = <<" ">>],
                 [NoUrls EXCEPT ![f] = UrlText(c, "data." \o f)])
        : f \in {"fileDownloadUrl", "downloadUrl", "url"} }

\* faulty variant: only the top level is searched
extractDownloadUrlTopOnly(payload) ==
    firstString(<<payload.fileDownloadUrl, payload.downloadUrl, payload.url>>)

\* lines 678-684
extractDownloadUrl(payload) ==
    LET direct == firstString(<<payload.fileDownloadUrl, payload.downloadUrl,
                                payload.url>>)
        data == payload.data
    IN IF direct # <<>> THEN direct
       ELSE firstString(<<data.fileDownloadUrl, data.downloadUrl, data.url>>)

DownloadThrown(err) == [state |-> "thrown", error |-> err]

\* lines 905-914: what the program prints for a result of the action
Output(result) ==
    IF result.state = "returned"
    THEN [ok |-> TRUE, data |-> result.data]
    ELSE [ok |-> FALSE, error |-> result.error,
          diagnostics |-> [error_type |-> "Error", message |-> result.error]]

\* bound of the download model: the chunks of the longest body
MaxBodyChunks == 2

\* the payloads: complete, or one field absent or blank
GoodPayload ==
    [cookie |-> <<"k">>, access_token |-> <<"t">>, session_key |-> <<"s">>,
     file_id |-> <<"7">>, local_file_path |-> <<" ", "d", "/", "f", " ">>]

DownloadPayloads ==
    {GoodPayload}
      \cup {[GoodPayload EXCEPT ![f] = v]
              : f \in DOMAIN GoodPayload, v \in {<<>>, <<" ">>}}

OldFile == [exists |-> TRUE, bytes |-> <<"old">>]

InitDownload ==
    /\ RunUploadIdle
    /\ SignIdle
    /\ AwaitIdle
    /\ PagingIdle
    /\ MainIdle
    /\ DeepIdle
    /\ ShareIdle
    /\ UploadIdle
    /\ FolderIdle
    /\ ListVersionsIdle
    /\ RsaIdle
    /\ dpc = "start"
    /\ dpayload \in DownloadPayloads
    /\ dcand = 0
    /\ dattempts = <<>>
    /\ dreqs = <<>>
    /\ dresps = <<>>
    /\ downloadUrl = <<>>
    /\ dirMade = FALSE
    /\ fetchResp = "none"
    /\ stream = "none"
    /\ destFile0 \in {NoFile, OldFile}
    /\ destFile = destFile0
    /\ dresult = [state |-> "running"]

\* faulty variant: the file id is not required
DownloadMissingNoFileId(payload) ==
    IF Trim(payload.cookie) = <<>> THEN "missing_cookie"
    ELSE IF Trim(payload.access_token) = <<>> THEN "missing_access_token"
    ELSE IF Trim(payload.session_key) = <<>> THEN "missing_session_key"
    ELSE IF Trim(payload.local_file_path) = <<>> THEN "missing_local_file_path"
    ELSE ""

\* lines 846-856: the payload's fields are trimmed and checked in order
DownloadMissing(payload) ==
    IF Trim(payload.cookie) = <<>> THEN "missing_cookie"
    ELSE IF Trim(payload.access_token) = <<>> THEN "missing_access_token"
    ELSE IF Trim(payload.session_key) = <<>> THEN "missing_session_key"
    ELSE IF Trim(payload.file_id) = <<>> THEN "missing_file_id"
    ELSE IF Trim(payload.local_file_path) = <<>> THEN "missing_local_file_path"
    ELSE ""

\* lines 846-856: the payload is validated
DStart ==
    /\ UNCHANGED othersOfDownload
    /\ dpc = "start"
    /\ LET missing == DownloadMissing(dpayload)
       IN IF missing # ""
          THEN /\ dpc' = "done"
               /\ dresult' = DownloadThrown(missing)
               /\ UNCHANGED dcand
          ELSE /\ dpc' = "url"
               /\ dcand' = 1
               /\ UNCHANGED dresult
    /\ UNCHANGED <<dpayload, dattempts, dreqs, dresps, downloadUrl, dirMade,
                   fetchResp, stream, destFile0, destFile>>

\* lines 716-728: one turn of the loop over the candidates; the URL is
\* returned alone, and after the last candidate the error with the attempts
\* is thrown
DUrlTry ==
    /\ UNCHANGED othersOfDownload
    /\ dpc = "url"
    /\ dcand <= Len(DownloadCandidates)
    /\ \E resp \in UrlResponses(dcand) :
         LET url == extractDownloadUrl(resp)
             reason == IF resp.kind = "error" THEN "request_failed"
                       ELSE IF resp.kind = "not_object" THEN "bad_format"
                       ELSE IF ~SuccessPayload(resp) THEN "bad_code"
                       ELSE "missing_url"
             pushed == Append(dattempts, [ok |-> FALSE, reason |-> reason])
         IN /\ dreqs' = Append(dreqs, DownloadCandidates[dcand])
            /\ dresps' = Append(dresps, resp)
            /\ IF SuccessPayload(resp) /\ url # <<>>
               THEN /\ downloadUrl' = url
                    /\ dpc' = "fetch"
                    /\ UNCHANGED <<dcand, dattempts, dresult>>
               ELSE /\ dattempts' = pushed
                    /\ dcand' = dcand + 1
                    /\ UNCHANGED downloadUrl
                    /\ IF dcand + 1 > Len(DownloadCandidates)
                       THEN /\ dpc' = "done"
                            /\ dresult' = [state |-> "thrown",
                                           error |-> "download_url_failed",
                                           attempts |-> pushed]
                       ELSE UNCHANGED <<dpc, dresult>>
    /\ UNCHANGED <<dpayload, dirMade, fetchResp, stream, destFile0, destFile>>

\* faulty variant: any response that arrived is streamed to the file
ResponseUsableAnyStatus(o) == o # "reject"

\* line 743: if (!resp.ok || !resp.body) throw
ResponseUsable(o) == o = "ok"

\* lines 732-746: the directory is made, the URL is fetched
DFetch ==
    /\ UNCHANGED othersOfDownload
    /\ dpc = "fetch"
    /\ \E o \in {"mkdir_fail", "reject", "non2xx", "no_body", "ok"} :
         /\ dirMade' = (o # "mkdir_fail")
         /\ fetchResp' = IF o = "mkdir_fail" THEN "none" ELSE o
         /\ IF o = "mkdir_fail"
            THEN /\ dpc' = "done"
                 /\ dresult' = DownloadThrown("mkdir")
            ELSE IF ResponseUsable(o)
            THEN /\ dpc' = "pipe"
                 /\ UNCHANGED dresult
            ELSE /\ dpc' = "done"
                 /\ dresult' = DownloadThrown(IF o = "reject" THEN "fetch"
                                              ELSE "download_failed_status")
    /\ UNCHANGED <<dpayload, dcand, dattempts, dreqs, dresps, downloadUrl,
                   stream, destFile0, destFile>>

\* lines 748-749: createWriteStream opens the destination, which empties it
DOpen ==
    /\ UNCHANGED othersOfDownload
    /\ dpc = "pipe"
    /\ stream = "none"
    /\ \E o \in {"ok", "fail"} :
         IF o = "fail"
         THEN /\ stream' = "error"
              /\ dpc' = "done"
              /\ dresult' = DownloadThrown("open")
              /\ UNCHANGED destFile
         ELSE /\ stream' = "open"
              /\ destFile' = [exists |-> TRUE, bytes |-> <<>>]
              /\ UNCHANGED <<dpc, dresult>>
    /\ UNCHANGED <<dpayload, dcand, dattempts, dreqs, dresps, downloadUrl,
                   dirMade, fetchResp, destFile0>>

\* lines 749-754: the pipeline writes a chunk, ends, or fails; when it has
\* ended the file is measured and the result returned
DPipe ==
    /\ UNCHANGED othersOfDownload
    /\ dpc = "pipe"
    /\ stream = "open"
    /\ \E o \in {"chunk", "end", "error"} :
         /\ o = "chunk" => Len(destFile.bytes) < MaxBodyChunks
         /\ CASE o = "chunk" ->
                   /\ destFile' = [destFile EXCEPT
                                     !.bytes = Append(@, Len(@) + 1)]
                   /\ UNCHANGED <<stream, dpc, dresult>>
              [] o = "end" ->
                   /\ stream' = "ended"
                   /\ dpc' = "done"
                   /\ dresult' =
                        [state |-> "returned",
                         data |-> [file_id |-> Trim(dpayload.file_id),
                                   download_url |-> downloadUrl,
                                   local_file_path |-> Trim(dpayload.local_file_path),
                                   file_size |-> Len(destFile.bytes)]]
                   /\ UNCHANGED destFile
              [] o = "error" ->
                   /\ stream' = "error"
                   /\ dpc' = "done"
                   /\ dresult' = DownloadThrown("stream")
                   /\ UNCHANGED destFile
    /\ UNCHANGED <<dpayload, dcand, dattempts, dreqs, dresps, downloadUrl,
                   dirMade, fetchResp, destFile0>>

NextDownload ==
    \/ DStart
    \/ DUrlTry
    \/ DFetch
    \/ DOpen
    \/ DPipe

SpecDownload == InitDownload /\ [][NextDownload]_vars

-----------------------------------------------------------------------------
(* The share link resolver: run of src/backend/tianyi_share_resolver.js.   *)
(*                                                                         *)
(* A text is a sequence of characters.  The text of a response body or of  *)
(* a URL is a sequence of fragments: a pair "key":value as JSON writes it, *)
(* a bare key=value or key: 'value', a query parameter ?key=value, or      *)
(* other text.  A body parses when it is JSON or JSONP; the pairs marked   *)
(* inData are then the entries of the object under the key data.           *)

Pair(key, value, quoted, inData) ==
    [t |-> "pair", key |-> key, value |-> value, quoted |-> quoted,
     inData |-> inData]

Bare(key, value) ==
    [t |-> "bare", key |-> key, value |-> value, quoted |-> FALSE,
     inData |-> FALSE]

Query(key, value) ==
    [t |-> "query", key |-> key, value |-> value, quoted |-> FALSE,
     inData |-> FALSE]

OtherText ==
    [t |-> "other", key |-> "", value |-> <<>>, quoted |-> FALSE,
     inData |-> FALSE]

Body(wrap, frags) ==
    [wrap |-> wrap, frags |-> frags, listKey |-> "", rows |-> <<>>]

\* a body whose parsed payload holds the array rows under the key listKey
ListBody(wrap, listKey, rows) ==
    [wrap |-> wrap, frags |-> <<>>, listKey |-> listKey, rows |-> rows]

\* String.prototype.toLowerCase on the keys the model's bodies use
LowerKey(key) ==
    CASE key \in {"shareId", "shareID", "shareiD", "shareid", "SHAREID"} -> "shareid"
      [] key \in {"fileId", "fileID", "fileid"} -> "fileid"
      [] key = "isFolder" -> "isfolder"
      [] key = "fileName" -> "filename"
      [] key = "fileSize" -> "filesize"
      [] key = "fileList" -> "filelist"
      [] OTHER -> key

\* lines 14-25: detectBodyType; a broken JSON text still starts with "{"
detectBodyType(body) ==
    CASE body.wrap = "empty" -> "empty"
      [] body.wrap \in {"json", "broken"} -> "json"
      [] body.wrap = "jsonp" -> "jsonp"
      [] body.wrap = "html" -> "html"
      [] OTHER -> "text"

NullPayload == [root |-> 0, nodes |-> <<>>]

\* String(rawValue || "").trim() of a parsed value
ValueText(frag) ==
    IF frag.quoted THEN Trim(frag.value)
    ELSE IF frag.value \in {<<"0">>, <<"f", "a", "l", "s", "e">>,
                            <<"n", "u", "l", "l">>}
         THEN <<>>
         ELSE frag.value

RECURSIVE TopEntries(_, _)
TopEntries(frags, dataSeen) ==
    IF frags = <<>> THEN <<>>
    ELSE LET frag == Head(frags)
         IN IF frag.t # "pair" THEN TopEntries(Tail(frags), dataSeen)
            ELSE IF ~frag.inData
            THEN <<[key |-> frag.key, text |-> ValueText(frag), ref |-> 0]>>
                   \o TopEntries(Tail(frags), dataSeen)
            ELSE IF dataSeen THEN TopEntries(Tail(frags), dataSeen)
            ELSE <<[key |-> "data", text |-> <<>>, ref |-> 2]>>
                   \o TopEntries(Tail(frags), TRUE)

RECURSIVE DataEntries(_)
DataEntries(frags) ==
    IF frags = <<>> THEN <<>>
    ELSE LET frag == Head(frags)
         IN (IF frag.t = "pair" /\ frag.inData
             THEN <<[key |-> frag.key, text |-> ValueText(frag), ref |-> 0]>>
             ELSE <<>>)
            \o DataEntries(Tail(frags))

\* lines 27-46, 242, 269: the payload as an object graph, node 1 the
\* root; a body that does not parse gives no payload and run takes {}
parseJsonLike(body) ==
    IF body.wrap \notin {"json", "jsonp"} THEN NullPayload
    ELSE [root |-> 1,
          nodes |-> << [isArray |-> FALSE, entries |-> TopEntries(body.frags, FALSE)],
                       [isArray |-> FALSE, entries |-> DataEntries(body.frags)] >>]

\* lines 67-74: the entries of one object are scanned in order; a wanted
\* key with a text ends the search, an object value is pushed
RECURSIVE ScanEntries(_, _, _)
ScanEntries(entries, wanted, pushed) ==
    IF entries = <<>> THEN [found |-> FALSE, text |-> <<>>, pushed |-> pushed]
    ELSE LET entry == Head(entries)
         IN IF LowerKey(entry.key) \in wanted /\ entry.text # <<>>
            THEN [found |-> TRUE, text |-> entry.text, pushed |-> pushed]
            ELSE ScanEntries(Tail(entries), wanted,
                             IF entry.ref # 0 THEN Append(pushed, entry.ref)
                             ELSE pushed)

RECURSIVE ItemRefs(_)
ItemRefs(entries) ==
    IF entries = <<>> THEN <<>>
    ELSE (IF Head(entries).ref # 0 THEN <<Head(entries).ref>> ELSE <<>>)
           \o ItemRefs(Tail(entries))

\* lines 54-75: the loop over the stack
RECURSIVE DeepSearch(_, _, _, _)
DeepSearch(nodes, stack, visited, wanted) ==
    IF stack = <<>> THEN <<>>
    ELSE LET current == stack[Len(stack)]
             rest == SubSeq(stack, 1, Len(stack) - 1)
         IN IF current \in visited THEN DeepSearch(nodes, rest, visited, wanted)
            ELSE IF nodes[current].isArray
            THEN DeepSearch(nodes, rest \o ItemRefs(nodes[current].entries),
                            visited \cup {current}, wanted)
            ELSE LET scan == ScanEntries(nodes[current].entries, wanted, <<>>)
                 IN IF scan.found THEN scan.text
                    ELSE DeepSearch(nodes, rest \o scan.pushed,
                                    visited \cup {current}, wanted)

\* lines 48-78
getDeepString(payload, keys) ==
    IF payload.root = 0 THEN <<>>
    ELSE DeepSearch(payload.nodes, <<payload.root>>, {},
                    {LowerKey(k) : k \in keys})

\* Object.keys of the payload
PayloadKeys(payload) ==
    IF payload.root = 0 THEN <<>>
    ELSE [k \in 1..Len(payload.nodes[1].entries)
            |-> payload.nodes[1].entries[k].key]

\* [A-Za-z0-9_-] among the characters the model's texts use
ValidIdChar(c) == c \notin {" ", "%", "&", "'", "<"}

RECURSIVE ValidPrefix(_)
ValidPrefix(value) ==
    IF value = <<>> \/ ~ValidIdChar(Head(value)) THEN <<>>
    ELSE <<Head(value)>> \o ValidPrefix(Tail(value))

\* share[Ii][Dd]
ShareIdSpelling(key) == key \in {"shareId", "shareID", "shareiD", "shareid"}

\* lines 123-127: what a pattern captures in a fragment, <<>> if it does
\* not match there
MatchPattern(p, frag) ==
    CASE p = 1 ->
           IF /\ frag.t = "pair" /\ ShareIdSpelling(frag.key) /\ frag.quoted
              /\ ValidPrefix(frag.value) = frag.value /\ Len(frag.value) >= 4
           THEN frag.value ELSE <<>>
      [] p = 2 ->
           IF /\ frag.t \in {"bare", "query"} /\ ShareIdSpelling(frag.key)
              /\ Len(ValidPrefix(frag.value)) >= 4
           THEN ValidPrefix(frag.value) ELSE <<>>
      [] OTHER ->
           IF /\ frag.t = "query" /\ LowerKey(frag.key) = "shareid"
              /\ Len(ValidPrefix(frag.value)) >= 4
           THEN ValidPrefix(frag.value) ELSE <<>>

RECURSIVE FirstMatch(_, _)
FirstMatch(p, frags) ==
    IF frags = <<>> THEN <<>>
    ELSE IF MatchPattern(p, Head(frags)) # <<>> THEN MatchPattern(p, Head(frags))
    ELSE FirstMatch(p, Tail(frags))

\* lines 120-133: the patterns are tried in order over the whole text
extractShareIdFromText(frags) ==
    IF FirstMatch(1, frags) # <<>> THEN FirstMatch(1, frags)
    ELSE IF FirstMatch(2, frags) # <<>> THEN FirstMatch(2, frags)
    ELSE FirstMatch(3, frags)

\* lines 115-118
toFolderFlag(value) == Trim(ToLower(value)) \in {<<"1">>, <<"t", "r", "u", "e">>}

IsDigit(c) == c \in {"0", "1", "2", "3", "4", "5", "6", "7", "8", "9"}

DigitValue(c) == CHOOSE d \in 0..9 : ToString(d) = c

RECURSIVE ParseDigits(_, _)
ParseDigits(value, acc) ==
    IF value = <<>> \/ ~IsDigit(Head(value)) THEN acc
    ELSE ParseDigits(Tail(value), acc * 10 + DigitValue(Head(value)))

\* lines 109-113: parseInt of an unsigned text, fallback when it has no digits
asInt(value, fallback) ==
    LET digits == TrimStart(value)
    IN IF digits = <<>> \/ ~IsDigit(Head(digits)) THEN fallback
       ELSE ParseDigits(digits, 0)

\* lines 80-107, 167: getDeepArray of the parsed body
ListedRows(body) ==
    IF body.wrap \in {"json", "jsonp"}
       /\ LowerKey(body.listKey) \in {"filelist", "files", "rows", "list"}
    THEN body.rows ELSE <<>>

\* lines 170-180
RECURSIVE mapFiles(_)
mapFiles(rows) ==
    IF rows = <<>> THEN <<>>
    ELSE LET item == Head(rows)
             fileId == Trim(IF item.id # <<>> THEN item.id ELSE item.fileId)
         IN (IF fileId = <<>> THEN <<>>
             ELSE <<[file_id |-> fileId,
                     name |-> IF item.name # <<>> THEN item.name
                              ELSE IF item.fileName # <<>> THEN item.fileName
                              ELSE <<"file-">> \o fileId,
                     size |-> Max(0, asInt(item.size, 0)),
                     is_folder |-> toFolderFlag(item.isFolder)]>>)
            \o mapFiles(Tail(rows))

\* lines 185-197: the defaults under the attempt's own fields
AttemptDefaults == [ok |-> FALSE, status |-> 0, endpoint |-> "", step |-> ""]

\* faulty variant: only the attempts that went well are recorded
appendAttemptIfOk(list, payload) ==
    IF "ok" \in DOMAIN payload /\ payload.ok
    THEN Append(list, [f \in DOMAIN AttemptDefaults \cup DOMAIN payload |->
                         IF f \in DOMAIN payload THEN payload[f]
                         ELSE AttemptDefaults[f]])
    ELSE list

appendAttempt(list, payload) ==
    Append(list, [f \in DOMAIN AttemptDefaults \cup DOMAIN payload |->
                    IF f \in DOMAIN payload THEN payload[f]
                    ELSE AttemptDefaults[f]])

\* new URL(...).hostname is in lower case
ToLowerHost(hostname) ==
    IF hostname = "CLOUD.189.CN" THEN "cloud.189.cn" ELSE hostname

\* String.prototype.split("/")
RECURSIVE SplitSlash(_, _)
SplitSlash(chars, current) ==
    IF chars = <<>> THEN <<current>>
    ELSE IF Head(chars) = "/" THEN <<current>> \o SplitSlash(Tail(chars), <<>>)
    ELSE SplitSlash(Tail(chars), Append(current, Head(chars)))

\* lines 217-219
PathParts(pathname) ==
    LET NonBlank(segment) == Trim(segment) # <<>>
    IN SelectSeq(SplitSlash(pathname, <<>>), NonBlank)

\* faulty variant: every host under cloud.189.cn passes
HostValidSubdomains(host) ==
    host \in {"cloud.189.cn", "www.cloud.189.cn", "m.cloud.189.cn"}

\* line 213: not (host !== "cloud.189.cn" && host !== "www.cloud.189.cn")
HostValid(host) == host \in {"cloud.189.cn", "www.cloud.189.cn"}

\* line 220: not (pathParts.length < 2 || pathParts[0] !== "t")
PathValid(pathParts) == Len(pathParts) >= 2 /\ pathParts[1] = <<"t">>

\* lines 200-222: the checks of run, in order; "" when the input passes
ShareInvalid(input) ==
    LET shareUrl == input.share_url
    IN IF shareUrl.text = "empty" THEN "share_url_empty"
       ELSE IF Trim(input.cookie) = <<>> THEN "cookie_empty"
       ELSE IF shareUrl.text = "unparseable" THEN "share_url_invalid"
       ELSE IF ~HostValid(ToLowerHost(shareUrl.hostname)) THEN "share_host_invalid"
       ELSE IF ~PathValid(PathParts(shareUrl.pathname)) THEN "share_path_invalid"
       ELSE ""

\* lines 224-225
ShareCode == Trim(PathParts(sinput.share_url.pathname)[2])

AccessCode == Trim(sinput.share_url.pwd)

ShareThrown(err) == [state |-> "thrown", error |-> err]

CHECK_ENDPOINT == "/api/open/share/checkAccessCode.action"

INFO_ENDPOINT == "/api/open/share/getShareInfoByCodeV2.action"

LIST_ENDPOINT == "/api/open/share/listShareDir.action"

\* ---- the inputs and the answers of the backend ---------------------------
Hostnames ==
    {"cloud.189.cn", "www.cloud.189.cn", "CLOUD.189.CN", "m.cloud.189.cn",
     "cloud.189.cn.example.com", "189.cn"}

Pathnames ==
    { <<"/", "t", "/", "A", "B">>,
      <<"/", "t", "/", "A", "B", "/">>,
      <<"/", "t", "/", "A", "B", "/", "x">>,
      <<"/", "/", "t", "/", "A", "B">>,
      <<"/", "t">>,
      <<"/", "t", "/">>,
      <<"/", "T", "/", "A", "B">>,
      <<"/", "w", "/", "t", "/", "A", "B">>,
      <<"/">> }

Passwords == { <<>>, <<" ">>, <<"1", "2", "3", "4">> }

ShareUrls ==
    {[text |-> k, hostname |-> "", pathname |-> <<>>, pwd |-> <<>>]
       : k \in {"empty", "unparseable"}}
    \cup [text : {"url"}, hostname : Hostnames, pathname : Pathnames,
          pwd : Passwords]

Response(status, body, url) == [status |-> status, body |-> body, url |-> url]

Rejected == Response(-1, Body("empty", <<>>), <<>>)

PlainUrl == <<OtherText>>

CheckResponses ==
    { Response(200, Body("json", <<Pair("res_code", <<"0">>, FALSE, FALSE)>>), PlainUrl),
      Response(200, Body("json", <<Pair("shareId", <<"c", "h", "k", "1">>, TRUE, FALSE)>>),
               PlainUrl),
      Response(200, Body("html", <<OtherText,
                                   Pair("shareId", <<"c", "h", "k", "2">>, TRUE, FALSE)>>),
               PlainUrl),
      Response(403, Body("empty", <<>>), PlainUrl) }

InfoBodies ==
    { Body("json", <<Pair("res_code", <<"0">>, FALSE, FALSE),
                     Pair("fileId", <<"f", "9">>, TRUE, FALSE)>>),
      Body("json", <<Pair("shareId", <<"i", "n", "f", "1">>, TRUE, FALSE),
                     Pair("fileId", <<"f", "1">>, TRUE, FALSE),
                     Pair("isFolder", <<"t", "r", "u", "e">>, FALSE, FALSE),
                     Pair("fileName", <<"n", "1">>, TRUE, FALSE),
                     Pair("fileSize", <<"4", "2">>, FALSE, FALSE)>>),
      Body("json", <<Pair("res_code", <<"0">>, FALSE, FALSE),
                     Pair("SHAREID", <<"1", "2">>, FALSE, TRUE),
                     Pair("isFolder", <<"0">>, FALSE, TRUE)>>),
      Body("jsonp", <<Pair("shareID", <<"i", "n", "f", "2">>, TRUE, FALSE),
                      Pair("isFolder", <<"1">>, TRUE, FALSE)>>),
      Body("html", <<OtherText,
                     Pair("shareId", <<"x", "y", "z", "7", "8", "9">>, TRUE, FALSE)>>),
      Body("broken", <<Pair("shareId", <<"a", "b">>, TRUE, FALSE),
                       Bare("shareId", <<"b", "a", "r", "e", "1", "%", "x">>)>>),
      Body("json", <<Pair("shareId", <<>>, TRUE, FALSE),
                     Pair("SHAREID", <<"0">>, FALSE, FALSE)>>),
      Body("html", <<OtherText>>),
      Body("empty", <<>>) }

FinalUrls ==
    { PlainUrl,
      <<OtherText, Query("shareId", <<"u", "r", "l", "1", "&", "x">>)>>,
      <<OtherText, Query("SHAREID", <<"U", "R", "L", "2">>)>> }

InfoResponses ==
    {Response(200, b, u) : b \in InfoBodies, u \in FinalUrls}
      \cup {Response(404, Body("html", <<OtherText>>), PlainUrl)}

NoRow == [id |-> <<>>, fileId |-> <<>>, name |-> <<>>, fileName |-> <<>>,
          size |-> <<>>, isFolder |-> <<>>]

ShareRows ==
    << [NoRow EXCEPT !.id = <<"r", "1">>, !.name = <<"a", ".", "7", "z">>,
                     !.size = <<"1", "5">>, !.isFolder = <<"1">>],
       [NoRow EXCEPT !.fileId = <<"r", "2">>, !.fileName = <<"b">>],
       [NoRow EXCEPT !.id = <<" ">>, !.fileId = <<"r", "3">>],
       [NoRow EXCEPT !.name = <<"c">>] >>

ListResponses ==
    { Response(200, ListBody("json", "fileList", ShareRows), PlainUrl),
      Response(200, ListBody("json", "fileList", <<>>), PlainUrl),
      Response(200, ListBody("json", "items", ShareRows), PlainUrl),
      Response(200, ListBody("json", "rows", SubSeq(ShareRows, 3, 4)), PlainUrl),
      Response(500, Body("html", <<OtherText>>), PlainUrl),
      Response(400, Body("empty", <<>>), PlainUrl) }

InitShare ==
    /\ RunUploadIdle
    /\ SignIdle
    /\ AwaitIdle
    /\ PagingIdle
    /\ MainIdle
    /\ DeepIdle
    /\ UploadIdle
    /\ FolderIdle
    /\ ListVersionsIdle
    /\ RsaIdle
    /\ DownloadIdle
    /\ spc = "start"
    /\ sinput \in [share_url : ShareUrls, cookie : Credentials]
    /\ fetchAvailable \in BOOLEAN
    /\ scalls = <<>>
    /\ sattempts = <<>>
    /\ shareId = <<>>
    /\ rootFileId = <<>>
    /\ isFolder = FALSE
    /\ checkResp = NoResponse
    /\ infoResp = NoResponse
    /\ listResp = NoResponse
    /\ sresult = [state |-> "running"]

\* lines 200-233, 254-262: the input is validated; without a pwd the
\* access-code check is recorded as skipped
SValidate ==
    /\ UNCHANGED othersOfShare
    /\ spc = "start"
    /\ LET invalid == ShareInvalid(sinput)
       IN IF invalid # ""
          THEN /\ spc' = "done"
               /\ sresult' = ShareThrown(invalid)
               /\ UNCHANGED sattempts
          ELSE IF AccessCode # <<>>
          THEN /\ spc' = "check"
               /\ UNCHANGED <<sattempts, sresult>>
          ELSE /\ spc' = "info"
               /\ sattempts' = appendAttempt(sattempts,
                    [step |-> "check_access_code_primary_js",
                     endpoint |-> CHECK_ENDPOINT, ok |-> FALSE, status |-> 0,
                     message |-> "pwd_missing_skip"])
               /\ UNCHANGED sresult
    /\ UNCHANGED <<sinput, fetchAvailable, scalls, shareId, rootFileId,
                   isFolder, checkResp, infoResp, listResp>>

\* lines 146-164, 236-253: the access-code check
SCheck ==
    /\ UNCHANGED othersOfShare
    /\ spc = "check"
    /\ IF ~fetchAvailable
       THEN /\ spc' = "done"
            /\ sresult' = ShareThrown("node_fetch_unavailable")
            /\ UNCHANGED <<scalls, sattempts, shareId, checkResp>>
       ELSE /\ scalls' = Append(scalls, [endpoint |-> CHECK_ENDPOINT,
                                         shareCode |-> ShareCode,
                                         accessCode |-> AccessCode])
            /\ \E resp \in CheckResponses \cup {Rejected} :
                 IF resp = Rejected
                 THEN /\ spc' = "done"
                      /\ sresult' = ShareThrown("fetch_failed")
                      /\ UNCHANGED <<sattempts, shareId, checkResp>>
                 ELSE LET checkObj == parseJsonLike(resp.body)
                          found == getDeepString(checkObj,
                                     {"shareId", "shareID", "shareid"})
                          newShareId == IF found # <<>> THEN found ELSE shareId
                      IN /\ checkResp' = resp
                         /\ shareId' = newShareId
                         /\ sattempts' = appendAttempt(sattempts,
                              [step |-> "check_access_code_primary_js",
                               endpoint |-> CHECK_ENDPOINT,
                               ok |-> newShareId # <<>>,
                               status |-> resp.status,
                               body_type |-> detectBodyType(resp.body),
                               share_id |-> newShareId])
                         /\ spc' = "info"
                         /\ UNCHANGED sresult
    /\ UNCHANGED <<sinput, fetchAvailable, rootFileId, isFolder, infoResp,
                   listResp>>

\* faulty variant: the patterns are tried whatever the parsing recovered
NeedsFallbackAlways(parsedShareId) == TRUE

\* line 284: if (!shareId)
NeedsFallback(parsedShareId) == parsedShareId = <<>>

\* faulty variant: without a shareId the resolver goes on to the listing
NoShareIdNever(finalShareId) == FALSE

\* line 292: if (!shareId)
NoShareId(finalShareId) == finalShareId = <<>>

\* faulty variant: the shareId of the access-code check is kept
ShareIdAfterInfoKeepCheck(found, fromCheck) ==
    IF fromCheck # <<>> THEN fromCheck ELSE found

\* line 271: shareId = getDeepString(infoObj, [...]) || shareId
ShareIdAfterInfo(found, fromCheck) ==
    IF found # <<>> THEN found ELSE fromCheck

\* faulty variant: the root file id is left empty
RootFileIdNoDefault(foundFileId, finalShareId) == foundFileId

\* lines 272 and 290: the fileId of share-info, or else the shareId
RootFileIdOf(foundFileId, finalShareId) ==
    IF foundFileId # <<>> THEN foundFileId ELSE finalShareId

\* lines 264-304: the share-info request, the fallbacks, and the failure
\* returned when no shareId was recovered
SInfo ==
    /\ UNCHANGED othersOfShare
    /\ spc = "info"
    /\ IF ~fetchAvailable
       THEN /\ spc' = "done"
            /\ sresult' = ShareThrown("node_fetch_unavailable")
            /\ UNCHANGED <<scalls, sattempts, shareId, rootFileId, isFolder,
                           infoResp>>
       ELSE /\ scalls' = Append(scalls, [endpoint |-> INFO_ENDPOINT,
                                         shareCode |-> ShareCode])
            /\ \E resp \in InfoResponses \cup {Rejected} :
                 IF resp = Rejected
                 THEN /\ spc' = "done"
                      /\ sresult' = ShareThrown("fetch_failed")
                      /\ UNCHANGED <<sattempts, shareId, rootFileId, isFolder,
                                     infoResp>>
                 ELSE LET infoObj == parseJsonLike(resp.body)
                          found == getDeepString(infoObj,
                                     {"shareId", "shareID", "shareid"})
                          parsedShareId == ShareIdAfterInfo(found, shareId)
                          foundFileId == getDeepString(infoObj,
                                           {"fileId", "fileID", "fileid"})
                          pushed == appendAttempt(sattempts,
                              [step |-> "get_share_info_js",
                               endpoint |-> INFO_ENDPOINT,
                               ok |-> parsedShareId # <<>>,
                               status |-> resp.status,
                               body_type |-> detectBodyType(resp.body),
                               share_id |-> parsedShareId])
                          fromBody == extractShareIdFromText(resp.body.frags)
                          finalShareId ==
                              IF ~NeedsFallback(parsedShareId) THEN parsedShareId
                              ELSE IF fromBody # <<>> THEN fromBody
                              ELSE extractShareIdFromText(resp.url)
                      IN /\ infoResp' = resp
                         /\ shareId' = finalShareId
                         /\ rootFileId' = RootFileIdOf(foundFileId, finalShareId)
                         /\ isFolder' = toFolderFlag(getDeepString(infoObj,
                                                                   {"isFolder"}))
                         /\ sattempts' = pushed
                         /\ IF NoShareId(finalShareId)
                            THEN /\ spc' = "done"
                                 /\ sresult' =
                                      [state |-> "returned", ok |-> FALSE,
                                       error |-> "js_share_parse_failed_no_shareid",
                                       diagnostics |->
                                         [share_code |-> ShareCode,
                                          share_url |-> sinput.share_url,
                                          attempts |-> pushed,
                                          check_payload_keys |->
                                            PayloadKeys(parseJsonLike(checkResp.body)),
                                          info_payload_keys |-> PayloadKeys(infoObj)]]
                            ELSE /\ spc' = "list"
                                 /\ UNCHANGED sresult
    /\ UNCHANGED <<sinput, fetchAvailable, checkResp, listResp>>

\* faulty variant: every share is listed as a single file
ListRequestSingleFile(folder, rootId, id, pwd) ==
    [endpoint |-> LIST_ENDPOINT,
     fileId |-> IF rootId # <<>> THEN rootId ELSE id,
     isFolder |-> FALSE, shareId |-> id, pageSize |-> 10, accessCode |-> pwd]

\* lines 306-328: the query of the listing request
ListRequest(folder, rootId, id, pwd) ==
    IF folder
    THEN [endpoint |-> LIST_ENDPOINT, fileId |-> id, shareDirFileId |-> id,
          isFolder |-> TRUE, shareId |-> id, pageSize |-> 60,
          accessCode |-> pwd]
    ELSE [endpoint |-> LIST_ENDPOINT,
          fileId |-> IF rootId # <<>> THEN rootId ELSE id,
          isFolder |-> FALSE, shareId |-> id, pageSize |-> 10,
          accessCode |-> pwd]

\* faulty variant: the root file is added to whatever the listing mapped
WithRootFileAlways(files, rootId, rootName, rootSize) ==
    Append(files, [file_id |-> rootId,
                   name |-> IF rootName # <<>> THEN rootName
                            ELSE <<"single-file">>,
                   size |-> Max(0, asInt(rootSize, 0)),
                   is_folder |-> FALSE])

\* lines 343-350: if (files.length === 0 && rootFileId) files.push({...})
WithRootFile(files, rootId, rootName, rootSize) ==
    IF files = <<>> /\ rootId # <<>>
    THEN <<[file_id |-> rootId,
            name |-> IF rootName # <<>> THEN rootName ELSE <<"single-file">>,
            size |-> Max(0, asInt(rootSize, 0)),
            is_folder |-> FALSE]>>
    ELSE files

\* lines 306-363: the listing request and the result
SList ==
    /\ UNCHANGED othersOfShare
    /\ spc = "list"
    /\ IF ~fetchAvailable
       THEN /\ spc' = "done"
            /\ sresult' = ShareThrown("node_fetch_unavailable")
            /\ UNCHANGED <<scalls, sattempts, listResp>>
       ELSE /\ scalls' = Append(scalls,
                             ListRequest(isFolder, rootFileId, shareId, AccessCode))
            /\ \E resp \in ListResponses \cup {Rejected} :
                 IF resp = Rejected
                 THEN /\ spc' = "done"
                      /\ sresult' = ShareThrown("fetch_failed")
                      /\ UNCHANGED <<sattempts, listResp>>
                 ELSE LET pushed == appendAttempt(sattempts,
                              [step |-> "list_share_dir_js",
                               endpoint |-> LIST_ENDPOINT,
                               ok |-> resp.status >= 200 /\ resp.status < 400,
                               status |-> resp.status,
                               body_type |-> detectBodyType(resp.body),
                               share_id |-> shareId])
                          mapped == mapFiles(ListedRows(resp.body))
                          infoObj == parseJsonLike(infoResp.body)
                          rootName == getDeepString(infoObj, {"name", "fileName"})
                          rootSize == getDeepString(infoObj, {"size", "fileSize"})
                          files == WithRootFile(mapped, rootFileId, rootName,
                                                rootSize)
                      IN /\ listResp' = resp
                         /\ sattempts' = pushed
                         /\ spc' = "done"
                         /\ sresult' =
                              [state |-> "returned", ok |-> TRUE,
                               data |-> [share_code |-> ShareCode,
                                         share_id |-> shareId,
                                         pwd |-> AccessCode,
                                         files |-> files],
                               diagnostics |-> [attempts |-> pushed]]
    /\ UNCHANGED <<sinput, fetchAvailable, shareId, rootFileId, isFolder,
                   checkResp, infoResp>>

NextShare ==
    \/ SValidate
    \/ SCheck
    \/ SInfo
    \/ SList

SpecShare == InitShare /\ [][NextShare]_vars

-----------------------------------------------------------------------------
(* getDeepString and getDeepArray, one turn of their loop at a time, over    *)
(* object graphs that may share nodes and contain cycles.                   *)

MaxNodes == 2

GraphNodes == 1..MaxNodes

SearchKeys == {"fileId"}

\* String(value) of an object is "[object Object]"; of an array it is its
\* items' strings joined by commas, an array met again inside itself giving
\* the empty string
RECURSIVE StringOfNode(_, _, _)
StringOfNode(shape, n, inside) ==
    LET items == shape[n].entries
        ItemString(item) ==
            IF item.ref = 0 THEN item.text
            ELSE StringOfNode(shape, item.ref, inside \cup {n})
        Joined[k \in 0..Len(items)] ==
            IF k = 0 THEN <<>>
            ELSE IF k = 1 THEN ItemString(items[1])
            ELSE Joined[k - 1] \o <<",">> \o ItemString(items[k])
    IN IF ~shape[n].isArray THEN <<"[object Object]">>
       ELSE IF n \in inside THEN <<>>
       ELSE Joined[Len(items)]

\* the entries as the search reads them: text is String(rawValue || ""),
\* a text value being named after its place in the graph
WithTexts(shape) ==
    [n \in DOMAIN shape |->
       [isArray |-> shape[n].isArray,
        entries |->
          [k \in DOMAIN shape[n].entries |->
             LET entry == shape[n].entries[k]
             IN [key |-> entry.key,
                 text |-> IF entry.ref # 0 THEN StringOfNode(shape, entry.ref, {})
                          ELSE IF entry.text = <<>> THEN <<>>
                          ELSE <<"v", ToString(n), ToString(k)>>,
                 ref |-> entry.ref]]]]

ObjectEntries ==
    {[key |-> "fileId", text |-> t, ref |-> 0] : t \in {<<>>, <<"v">>}}
      \cup {[key |-> k, text |-> <<>>, ref |-> r] :
              k \in {"fileID", "x"}, r \in GraphNodes}

ArrayItems ==
    {[key |-> "0", text |-> <<"v">>, ref |-> 0]}
      \cup {[key |-> "0", text |-> <<>>, ref |-> r] : r \in GraphNodes}

UpTo(entries, longest) ==
    UNION {[1..len -> entries] : len \in 0..longest}

\* the payload is an object of up to two entries; the other nodes are
\* objects or arrays of at most one
GraphShapes ==
    {[n \in GraphNodes |-> IF n = 1 THEN root ELSE rest[n]] :
       root \in [isArray : {FALSE}, entries : UpTo(ObjectEntries, 2)],
       rest \in [GraphNodes \ {1} ->
                   [isArray : {FALSE}, entries : UpTo(ObjectEntries, 1)]
                     \cup [isArray : {TRUE}, entries : UpTo(ArrayItems, 1)]]}

InitDeep ==
    /\ RunUploadIdle
    /\ SignIdle
    /\ AwaitIdle
    /\ PagingIdle
    /\ MainIdle
    /\ UploadIdle
    /\ FolderIdle
    /\ ListVersionsIdle
    /\ RsaIdle
    /\ DownloadIdle
    /\ ShareIdle
    /\ deepPc = "run"
    /\ deepMode \in {"string", "array"}
    /\ deepNodes \in {WithTexts(shape) : shape \in GraphShapes}
    /\ deepStack = <<1>>
    /\ deepVisited = {}
    /\ deepOrder = <<>>
    /\ deepPops = 0
    /\ deepResult = NotFound

\* lines 99-103 of getDeepArray: a wanted key with an array ends the search,
\* an object value is pushed
RECURSIVE ScanForArray(_, _, _, _)
ScanForArray(nodes, entries, wanted, pushed) ==
    IF entries = <<>> THEN [found |-> FALSE, ref |-> 0, pushed |-> pushed]
    ELSE LET entry == Head(entries)
         IN IF /\ LowerKey(entry.key) \in wanted
               /\ entry.ref # 0
               /\ nodes[entry.ref].isArray
            THEN [found |-> TRUE, ref |-> entry.ref, pushed |-> pushed]
            ELSE ScanForArray(nodes, Tail(entries), wanted,
                              IF entry.ref # 0 THEN Append(pushed, entry.ref)
                              ELSE pushed)

\* lines 86-104: the loop of getDeepArray
RECURSIVE DeepArraySearch(_, _, _, _)
DeepArraySearch(nodes, stack, visited, wanted) ==
    IF stack = <<>> THEN 0
    ELSE LET current == stack[Len(stack)]
             rest == SubSeq(stack, 1, Len(stack) - 1)
         IN IF current \in visited
            THEN DeepArraySearch(nodes, rest, visited, wanted)
            ELSE IF nodes[current].isArray
            THEN DeepArraySearch(nodes, rest \o ItemRefs(nodes[current].entries),
                                 visited \cup {current}, wanted)
            ELSE LET scan == ScanForArray(nodes, nodes[current].entries,
                                          wanted, <<>>)
                 IN IF scan.found THEN scan.ref
                    ELSE DeepArraySearch(nodes, rest \o scan.pushed,
                                         visited \cup {current}, wanted)

\* lines 80-107: the array found, as its node; 0 stands for the [] returned
\* when there is none
getDeepArray(payload, keys) ==
    IF payload.root = 0 THEN 0
    ELSE DeepArraySearch(payload.nodes, <<payload.root>>, {},
                         {LowerKey(k) : k \in keys})

\* faulty variant: no node counts as visited
AlreadyVisitedNever(current, visited) == FALSE

\* lines 57 and 89: if (visited.has(current)) continue;
AlreadyVisited(current, visited) == current \in visited

\* the most pops a search of the graph can take: the payload and one for
\* every reference pushed
PopLimit == 1 + 2 * MaxNodes

\* lines 54-75 and 86-104: one turn of while (stack.length > 0), and the
\* return after the loop when the stack is empty
DeepStep ==
    /\ UNCHANGED othersOfDeep
    /\ deepPc = "run"
    /\ deepPops <= PopLimit
    /\ LET current == deepStack[Len(deepStack)]
           rest == SubSeq(deepStack, 1, Len(deepStack) - 1)
           wanted == {LowerKey(k) : k \in SearchKeys}
           entries == deepNodes[current].entries
           scan == IF deepMode = "string"
                   THEN ScanEntries(entries, wanted, <<>>)
                   ELSE [found |-> ScanForArray(deepNodes, entries, wanted, <<>>).found,
                         text |-> <<>>,
                         pushed |-> ScanForArray(deepNodes, entries, wanted, <<>>).pushed]
           after ==
             IF AlreadyVisited(current, deepVisited)
             THEN [found |-> FALSE, stack |-> rest, scanned |-> FALSE]
             ELSE IF deepNodes[current].isArray
             THEN [found |-> FALSE, stack |-> rest \o ItemRefs(entries),
                   scanned |-> TRUE]
             ELSE [found |-> scan.found, stack |-> rest \o scan.pushed,
                   scanned |-> TRUE]
       IN /\ deepPops' = deepPops + 1
          /\ deepVisited' = deepVisited \cup {current}
          /\ deepOrder' = IF after.scanned THEN Append(deepOrder, current)
                          ELSE deepOrder
          /\ deepStack' = after.stack
          /\ deepResult' =
               IF ~after.found THEN NotFound
               ELSE IF deepMode = "string"
               THEN [found |-> TRUE, text |-> scan.text, ref |-> 0]
               ELSE [found |-> TRUE, text |-> <<>>,
                     ref |-> ScanForArray(deepNodes, entries, wanted, <<>>).ref]
          /\ deepPc' = IF after.found \/ after.stack = <<>> THEN "done" ELSE "run"
    /\ UNCHANGED <<deepMode, deepNodes>>

NextDeep == DeepStep

SpecDeep == InitDeep /\ [][NextDeep]_vars

-----------------------------------------------------------------------------
(* The entry points of the two scripts: part_000 lines 892-916 and          *)
(* tianyi_share_resolver.js lines 374-397.  The operations themselves are   *)
(* the models above; here an operation that passes its checks makes its     *)
(* requests and returns or throws.                                          *)

\* String.prototype.toLowerCase on the action words the requests use
LowerWord(word) ==
    CASE word \in {"Upload", "UPLOAD"} -> "upload"
      [] word = "DOWNLOAD_FILE" -> "download_file"
      [] word = "Download" -> "download"
      [] OTHER -> word

\* line 896: String(payload.action || "upload").trim().toLowerCase()
ActionOf(request) ==
    LET given == IF request.action = <<>> THEN <<"upload">> ELSE request.action
        trimmed == Trim(given)
    IN [k \in 1..Len(trimmed) |-> LowerWord(trimmed[k])]

\* faulty variant: the download runs under the name "download"
DispatchShortName(action) ==
    IF action = <<"upload">> THEN "upload"
    ELSE IF action = <<"list_versions">> THEN "list_versions"
    ELSE IF action = <<"download">> THEN "download_file"
    ELSE "none"

\* lines 898-906: the operation an action runs, "none" when the action is
\* not supported
Dispatch(action) ==
    IF action = <<"upload">> THEN "upload"
    ELSE IF action = <<"list_versions">> THEN "list_versions"
    ELSE IF action = <<"download_file">> THEN "download_file"
    ELSE "none"

\* lines 758-772: the fields runUpload requires, in the order checked; an
\* empty local_file_path resolves to the working directory
UploadMissing(request, fileKind) ==
    IF Trim(request.cookie) = <<>> THEN "missing_cookie"
    ELSE IF Trim(request.access_token) = <<>> THEN "missing_access_token"
    ELSE IF Trim(request.session_key) = <<>> THEN "missing_session_key"
    ELSE IF fileKind # "file" THEN "upload_file_missing"
    ELSE ""

\* the check an operation makes before its first request
MissingFor(operation, request, fileKind) ==
    CASE operation = "upload" -> UploadMissing(request, fileKind)
      [] operation = "list_versions" -> ListMissing(request)
      [] operation = "download_file" -> DownloadMissing(request)
      [] OTHER -> "unsupported_action"

MainThrown(err) == [state |-> "thrown", error |-> err]

\* lines 388-393 and 380 of the resolver: what it prints for a thrown error
ResolverFailure(err) == [ok |-> FALSE, error |-> err]

\* the requests read from the standard input
ActionTexts ==
    { <<>>, <<" ">>, <<"upload">>, <<" ", "Upload", " ">>, <<"list_versions">>,
      <<"download">>, <<"download_file">>, <<"DOWNLOAD_FILE", " ">>,
      <<"delete">> }

NoShareUrl == [text |-> "empty", hostname |-> "", pathname |-> <<>>, pwd |-> <<>>]

EmptyRequest ==
    [action |-> <<>>, cookie |-> <<>>, access_token |-> <<>>,
     session_key |-> <<>>, file_id |-> <<>>, local_file_path |-> <<>>,
     share_url |-> NoShareUrl]

UploaderRequests ==
    {[action |-> a, cookie |-> p.cookie, access_token |-> p.access_token,
      session_key |-> p.session_key, file_id |-> p.file_id,
      local_file_path |-> p.local_file_path, share_url |-> NoShareUrl] :
       a \in ActionTexts, p \in DownloadPayloads}

ResolverRequests ==
    {[EmptyRequest EXCEPT !.share_url = u, !.cookie = c] :
       u \in ShareUrls, c \in Credentials}

StdinTexts(script) ==
    {[kind |-> k, request |-> EmptyRequest] :
       k \in {"error", "invalid", "empty", "null"}}
      \cup {[kind |-> "object", request |-> r] :
              r \in IF script = "uploader" THEN UploaderRequests
                    ELSE ResolverRequests}

InitMain ==
    /\ RunUploadIdle
    /\ SignIdle
    /\ AwaitIdle
    /\ PagingIdle
    /\ UploadIdle
    /\ FolderIdle
    /\ ListVersionsIdle
    /\ RsaIdle
    /\ DownloadIdle
    /\ ShareIdle
    /\ DeepIdle
    /\ mpc = "read"
    /\ mscript \in {"uploader", "resolver"}
    /\ mstdin \in StdinTexts(mscript)
    /\ mfileKind \in {"file", "dir", "absent"}
    /\ Trim(mstdin.request.local_file_path) = <<>> => mfileKind = "dir"
    /\ mscript = "resolver" => mfileKind = "dir"
    /\ mop = "none"
    /\ mnet = FALSE
    /\ mrun = [state |-> "running"]
    /\ mstdout = <<>>
    /\ mexit = 0

\* part_000 lines 876-916: the request is read and parsed, the action is
\* dispatched and the operation checks its payload; a failure is printed
\* with its diagnostics and sets the exit code
UploaderStart ==
    /\ UNCHANGED othersOfMain
    /\ mscript = "uploader"
    /\ mpc = "read"
    /\ LET request == mstdin.request
           operation == Dispatch(ActionOf(request))
           failure ==
             IF mstdin.kind \in {"error", "invalid", "empty"} THEN "stdin_failed"
             ELSE MissingFor(operation, request, mfileKind)
       IN /\ mop' = operation
          /\ IF failure # ""
             THEN /\ mrun' = MainThrown(failure)
                  /\ mstdout' = Append(mstdout, Output(MainThrown(failure)))
                  /\ mexit' = 1
                  /\ mpc' = "done"
             ELSE /\ mpc' = "run"
                  /\ UNCHANGED <<mrun, mstdout, mexit>>
    /\ UNCHANGED <<mscript, mstdin, mfileKind, mnet>>

\* part_000 lines 898-915: the operation makes its requests and returns or
\* throws; the result is printed
UploaderFinish ==
    /\ UNCHANGED othersOfMain
    /\ mscript = "uploader"
    /\ mpc = "run"
    /\ \E outcome \in {[state |-> "returned", data |-> [operation |-> mop]],
                       MainThrown("request_failed")} :
         /\ mrun' = outcome
         /\ mstdout' = Append(mstdout, Output(outcome))
         /\ mexit' = IF outcome.state = "thrown" THEN 1 ELSE mexit
    /\ mnet' = TRUE
    /\ mpc' = "done"
    /\ UNCHANGED <<mscript, mstdin, mfileKind, mop>>

\* resolver lines 366-386, 199-222: the input is read and parsed and run
\* checks it; when reading fails main's promise is rejected and nothing is
\* printed, the exit status being the runtime's for an unhandled rejection
ResolverStart ==
    /\ UNCHANGED othersOfMain
    /\ mscript = "resolver"
    /\ mpc = "read"
    /\ mop' = "share"
    /\ LET request == mstdin.request
           failure ==
             IF mstdin.kind = "invalid" THEN "stdin_json_invalid"
             ELSE IF mstdin.kind = "null" THEN "type_error"
             ELSE ShareInvalid(request)
       IN IF mstdin.kind = "error"
          THEN /\ mexit' \in {0, 1}
               /\ mrun' = MainThrown("stdin_failed")
               /\ mpc' = "done"
               /\ UNCHANGED mstdout
          ELSE IF failure # ""
          THEN /\ mrun' = MainThrown(failure)
               /\ mstdout' = Append(mstdout, ResolverFailure(failure))
               /\ mpc' = "done"
               /\ UNCHANGED mexit
          ELSE /\ mpc' = "run"
               /\ UNCHANGED <<mrun, mstdout, mexit>>
    /\ UNCHANGED <<mscript, mstdin, mfileKind, mnet>>

\* resolver lines 384-394: run makes its requests and returns a result or
\* throws; the result, or the error's message, is printed
ResolverFinish ==
    /\ UNCHANGED othersOfMain
    /\ mscript = "resolver"
    /\ mpc = "run"
    /\ \E outcome \in
           {[state |-> "returned",
             value |-> [ok |-> TRUE, data |-> [share_code |->
                                    Trim(PathParts(mstdin.request.share_url.pathname)[2])],
                        diagnostics |-> [attempts |-> <<"check", "info", "list">>]]],
            [state |-> "returned",
             value |-> [ok |-> FALSE, error |-> "js_share_parse_failed_no_shareid",
                        diagnostics |-> [attempts |-> <<"check", "info">>]]],
            MainThrown("fetch_failed"), MainThrown("node_fetch_unavailable")} :
         /\ mrun' = outcome
         /\ mstdout' = Append(mstdout,
                              IF outcome.state = "returned" THEN outcome.value
                              ELSE ResolverFailure(outcome.error))
         /\ mnet' = (outcome # MainThrown("node_fetch_unavailable"))
    /\ mpc' = "done"
    /\ UNCHANGED <<mscript, mstdin, mfileKind, mop, mexit>>

NextMain ==
    \/ UploaderStart
    \/ UploaderFinish
    \/ ResolverStart
    \/ ResolverFinish

SpecMain == InitMain /\ [][NextMain]_vars

-----------------------------------------------------------------------------
(* listFolders and listFiles, one page request per step.  Only the number  *)
(* of items of each page and the count it reports decide how the loop goes *)
(* on, so the backend is its number of rows, the count it reports, and     *)
(* whether it ignores pageNum and answers every request with its first     *)
(* page.  A count that is not a number never ends the loop (NaN compares   *)
(* false at lines 264-266): it behaves as a count no page number reaches.  *)

\* lines 235 and 275: the bound of the while loop
PageCap(kind) == IF kind = "folders" THEN MAX_FOLDER_PAGES ELSE MAX_FILE_PAGES

\* lines 242 and 282: the page size asked for
PageSizeOf(kind) == IF kind = "folders" THEN PAGE_SIZE ELSE FILE_PAGE_SIZE

\* the backend's answer to one page request: folderList.length or
\* fileList.length, and fileListAO.count
PageAnswer(server, kind, n) ==
    LET size == PageSizeOf(kind)
        before == IF server.sticky THEN 0 ELSE (n - 1) * size
    IN [items |-> Max(0, Min(size, server.rows - before)), count |-> server.count]

PagedServers ==
    [rows : {0, 1, 60, 61, 125, 2000},
     count : {-1, 0, 1, 60, 61, 120, 125, 1500, 60000},
     sticky : BOOLEAN]

InitPaging ==
    /\ RunUploadIdle
    /\ SignIdle
    /\ AwaitIdle
    /\ UploadIdle
    /\ FolderIdle
    /\ ListVersionsIdle
    /\ RsaIdle
    /\ DownloadIdle
    /\ ShareIdle
    /\ DeepIdle
    /\ MainIdle
    /\ pgPc = "paging"
    /\ pgKind \in {"folders", "files"}
    /\ pgServer \in PagedServers
    /\ pgNum = 1
    /\ pgLog = <<>>

\* lines 235-268 and 275-314: one turn of the loop, from the request to the
\* breaks; requestOpenApi or ensureSuccessPayload may throw
PageRequest ==
    /\ UNCHANGED othersOfPaging
    /\ pgPc = "paging"
    /\ pgNum <= PageCap(pgKind)
    /\ UNCHANGED <<pgKind, pgServer>>
    /\ \E o \in {"ok", "fail"} :
         IF o = "fail"
         THEN /\ pgPc' = "thrown"
              /\ pgLog' = Append(pgLog, [page |-> pgNum, answered |-> FALSE,
                                        items |-> 0, count |-> 0])
              /\ UNCHANGED pgNum
         ELSE LET answer == PageAnswer(pgServer, pgKind, pgNum)
                  last == LastPage(answer.items, answer.count, pgNum,
                                   PageSizeOf(pgKind))
              IN /\ pgLog' = Append(pgLog, [page |-> pgNum, answered |-> TRUE,
                                           items |-> answer.items,
                                           count |-> answer.count])
                 /\ pgNum' = IF last THEN pgNum ELSE pgNum + 1
                 /\ pgPc' = IF last \/ pgNum + 1 > PageCap(pgKind)
                            THEN "returned" ELSE "paging"

NextPaging == PageRequest

SpecPaging == InitPaging /\ [][NextPaging]_vars

-----------------------------------------------------------------------------
(* The loops that make one request per turn: createFolderCandidates,       *)
(* getRsaKey, uploadFileSlices and getCloudFileDownloadUrl.  A request is  *)
(* two steps here, its start and its settling (the response, or the        *)
(* failure fetch rejects with), so that the requests under way at one time *)
(* can be counted.                                                         *)

MaxAwaitParts == 2

AwaitLoops == {"createFolder", "rsaKey", "uploadParts", "downloadUrl"}

\* lines 362, 473, 595, 717: the turns of each loop
TurnsOf(name, turns) ==
    CASE name = "createFolder" -> Len(Candidates)
      [] name = "rsaKey" -> Len(RsaCandidates)
      [] name = "downloadUrl" -> Len(DownloadCandidates)
      [] OTHER -> turns

\* lines 608 and 630: a part asks for its upload URL, then puts its bytes
FirstStep(name) == IF name = "uploadParts" THEN "urls" ELSE "only"

\* what a request can settle with
OutcomesOf(name, step) ==
    CASE name = "createFolder" -> {"ok", "refused", "failure"}
      [] name = "uploadParts" /\ step = "put" -> {"ok", "status", "failure"}
      [] OTHER -> {"found", "missing", "failure"}

\* lines 366-375, 476-494, 617-638, 720-726: what the loop does once the
\* request has settled: the next turn, the second request of the turn, or
\* its end
AfterSettle(name, turns, index, step, outcome) ==
    LET next == IF index < TurnsOf(name, turns)
                THEN [pc |-> "send", index |-> index + 1, step |-> FirstStep(name)]
                ELSE [pc |-> IF name \in {"createFolder", "uploadParts"}
                             THEN "returned" ELSE "thrown",
                      index |-> index, step |-> step]
        stop(how) == [pc |-> how, index |-> index, step |-> step]
    IN CASE name = "createFolder" -> next
         [] name \in {"rsaKey", "downloadUrl"} ->
              IF outcome = "found" THEN stop("returned") ELSE next
         [] name = "uploadParts" /\ step = "urls" ->
              IF outcome = "found"
              THEN [pc |-> "send", index |-> index, step |-> "put"]
              ELSE stop("thrown")
         [] OTHER -> IF outcome = "ok" THEN next ELSE stop("thrown")

\* faulty variant: the loop goes on without waiting for the request
AfterStartGoOn == "send"

\* lines 364, 475, 608, 630, 719: await suspends the loop until the request
\* has settled
AfterStart == "await"

InitAwait ==
    /\ RunUploadIdle
    /\ SignIdle
    /\ UploadIdle
    /\ FolderIdle
    /\ ListVersionsIdle
    /\ RsaIdle
    /\ DownloadIdle
    /\ ShareIdle
    /\ DeepIdle
    /\ MainIdle
    /\ PagingIdle
    /\ awPc = "send"
    /\ awLoop \in AwaitLoops
    /\ awParts \in IF awLoop = "uploadParts" THEN 1..MaxAwaitParts ELSE {0}
    /\ awIndex = 1
    /\ awStep = FirstStep(awLoop)
    /\ awPending = <<>>
    /\ awLog = <<>>

\* the call of requestOpenApi, candidate.run, uploadRequest, fetch or fn
StartRequest ==
    /\ UNCHANGED othersOfAwait
    /\ awPc = "send"
    /\ awPending' = Append(awPending, [index |-> awIndex, step |-> awStep])
    /\ awLog' = Append(awLog, [event |-> "started", index |-> awIndex,
                              step |-> awStep, outcome |-> "none"])
    /\ awPc' = AfterStart
    /\ UNCHANGED <<awLoop, awParts, awIndex, awStep>>

\* the awaited promise settles and the loop resumes
SettleRequest ==
    /\ UNCHANGED othersOfAwait
    /\ awPc = "await"
    /\ awPending # <<>>
    /\ \E outcome \in OutcomesOf(awLoop, awStep) :
         LET settled == Head(awPending)
             after == AfterSettle(awLoop, awParts, awIndex, awStep, outcome)
         IN /\ awPending' = Tail(awPending)
            /\ awLog' = Append(awLog, [event |-> "settled", index |-> settled.index,
                                      step |-> settled.step, outcome |-> outcome])
            /\ awPc' = after.pc
            /\ awIndex' = after.index
            /\ awStep' = after.step
    /\ UNCHANGED <<awLoop, awParts>>

NextAwait == StartRequest \/ SettleRequest

SpecAwait == InitAwait /\ [][NextAwait]_vars

-----------------------------------------------------------------------------
(* md5Signature.  A text is the list of its UTF-16 code units.  A map of   *)
(* parameters is the list of its entries in insertion order, which is the  *)
(* order Object.entries gives for keys that are not array indices; its     *)
(* keys are distinct.  String.prototype.localeCompare is the runtime's: in *)
(* a build with Intl it is the collation of the default locale, which      *)
(* compares letters before case and accents and takes canonically          *)
(* equivalent texts for equal; in a build without Intl it compares code    *)
(* units.                                                                  *)

MaxParams == 2

JsNull == <<-1>>

JsUndefined == <<-2>>

KeyAppKey == <<65, 112, 112, 75, 101, 121>>

KeyTimestamp == <<84, 105, 109, 101, 115, 116, 97, 109, 112>>

KeyFileId == <<102, 105, 108, 101, 73, 100>>

KeyFileIdUpper == <<70, 105, 108, 101, 73, 100>>

\* U+00E9, and its canonical equivalent U+0065 U+0301
KeyEAcute == <<233>>

KeyEAcuteDecomposed == <<101, 769>>

SignKeys ==
    {KeyAppKey, KeyTimestamp, KeyFileId, KeyFileIdUpper, KeyEAcute,
     KeyEAcuteDecomposed}

SignValues == {<<49>>, JsNull, JsUndefined}

\* -1, 0 or 1 as the first list of numbers is before, equal to or after the
\* second in lexicographic order
RECURSIVE LexCompare(_, _)
LexCompare(a, b) ==
    IF a = <<>> /\ b = <<>> THEN 0
    ELSE IF a = <<>> THEN -1
    ELSE IF b = <<>> THEN 1
    ELSE IF Head(a) < Head(b) THEN -1
    ELSE IF Head(a) > Head(b) THEN 1
    ELSE LexCompare(Tail(a), Tail(b))

\* canonical decomposition of a text
RECURSIVE Decompose(_)
Decompose(text) ==
    IF text = <<>> THEN <<>>
    ELSE (IF Head(text) = 233 THEN <<101, 769>> ELSE <<Head(text)>>)
         \o Decompose(Tail(text))

IsUpperUnit(u) == u >= 65 /\ u <= 90

IsMarkUnit(u) == u = 769

\* the letters of a text without their case and their accents
RECURSIVE PrimaryKey(_)
PrimaryKey(text) ==
    IF text = <<>> THEN <<>>
    ELSE (IF IsMarkUnit(Head(text)) THEN <<>>
          ELSE IF IsUpperUnit(Head(text)) THEN <<Head(text) + 32>>
          ELSE <<Head(text)>>)
         \o PrimaryKey(Tail(text))

\* the accents of a text, letter by letter
SecondaryKey(text) ==
    [k \in 1..Len(text) |-> IF IsMarkUnit(text[k]) THEN 1 ELSE 0]

\* the case of a text, letter by letter: lower case first
TertiaryKey(text) ==
    [k \in 1..Len(text) |-> IF IsUpperUnit(text[k]) THEN 1 ELSE 0]

\* a.localeCompare(b) of the collation of a build with Intl
CollationCompare(a, b) ==
    LET da == Decompose(a)
        db == Decompose(b)
        primary == LexCompare(PrimaryKey(da), PrimaryKey(db))
        secondary == LexCompare(SecondaryKey(da), SecondaryKey(db))
    IN IF primary # 0 THEN primary
       ELSE IF secondary # 0 THEN secondary
       ELSE LexCompare(TertiaryKey(da), TertiaryKey(db))

\* line 37: String(a[0]).localeCompare(String(b[0]))
localeCompare(a, b, collation) ==
    IF collation = "icu" THEN CollationCompare(a, b) ELSE LexCompare(a, b)

\* line 36: the entries whose value is neither undefined nor null
PresentEntries(entries) ==
    LET Present(e) == e.v # JsUndefined /\ e.v # JsNull
    IN SelectSeq(entries, Present)

\* Array.prototype.sort is stable: an entry goes after the entries already
\* placed that do not compare greater than it
RECURSIVE InsertSorted(_, _, _)
InsertSorted(sorted, e, collation) ==
    IF sorted = <<>> THEN <<e>>
    ELSE IF localeCompare(e.k, Head(sorted).k, collation) < 0
         THEN <<e>> \o sorted
         ELSE <<Head(sorted)>> \o InsertSorted(Tail(sorted), e, collation)

\* line 37: entries.sort(...)
RECURSIVE SortEntries(_, _)
SortEntries(entries, collation) ==
    IF entries = <<>> THEN <<>>
    ELSE InsertSorted(SortEntries(SubSeq(entries, 1, Len(entries) - 1), collation),
                      entries[Len(entries)], collation)

\* line 38: `${k}=${v}` joined with "&"
RECURSIVE JoinPairs(_)
JoinPairs(entries) ==
    IF entries = <<>> THEN <<>>
    ELSE Head(entries).k \o <<61>> \o Head(entries).v
         \o (IF Len(entries) > 1 THEN <<38>> ELSE <<>>)
         \o JoinPairs(Tail(entries))

\* lines 36-38: signText
SignText(entries, collation) ==
    JoinPairs(SortEntries(PresentEntries(entries), collation))

\* lines 35-40
md5Signature(entries, collation) == md5Hex(SignText(entries, collation))

\* the maps of up to MaxParams entries with distinct keys
ParamMaps ==
    UNION { { es \in [1..n -> [k : SignKeys, v : SignValues]] :
                \A a, b \in 1..n : a # b => es[a].k # es[b].k } :
            n \in 1..MaxParams }

\* the same entries in every insertion order
Reorderings(entries) ==
    { [k \in 1..Len(entries) |-> entries[p[k]]] :
        p \in { q \in [1..Len(entries) -> 1..Len(entries)] :
                  \A a, b \in 1..Len(entries) : a # b => q[a] # q[b] } }

InitSign ==
    /\ RunUploadIdle
    /\ UploadIdle
    /\ FolderIdle
    /\ ListVersionsIdle
    /\ RsaIdle
    /\ DownloadIdle
    /\ ShareIdle
    /\ DeepIdle
    /\ MainIdle
    /\ PagingIdle
    /\ AwaitIdle
    /\ sgPc = "ready"
    /\ sgParams \in ParamMaps
    /\ sgOther \in Reorderings(sgParams)
    /\ sgCollation \in {"icu", "ordinal"}
    /\ sgText = <<>>
    /\ sgSignature = md5Hex(<<>>)
    /\ sgOtherSignature = md5Hex(<<>>)

\* the call of md5Signature on the map, and on the reordered map
SignBoth ==
    /\ UNCHANGED othersOfSign
    /\ sgPc = "ready"
    /\ sgPc' = "signed"
    /\ sgText' = SignText(sgParams, sgCollation)
    /\ sgSignature' = md5Signature(sgParams, sgCollation)
    /\ sgOtherSignature' = md5Signature(sgOther, sgCollation)
    /\ UNCHANGED <<sgParams, sgOther, sgCollation>>

NextSign == SignBoth

SpecSign == InitSign /\ [][NextSign]_vars

-----------------------------------------------------------------------------
(* runUpload: the three stages ensureFolderPath, getRsaKey and             *)
(* uploadFileSlices one after the other, each stage by the requests it     *)
(* makes.  The backend hands out a new key for every generateRsaKey        *)
(* request it answers: the key's pkId is the request's number in the log.  *)

MaxRunSegments == 2

MaxRunChunks == 2

RunRequest(stage, endpoint, pkId) ==
    [stage |-> stage, endpoint |-> endpoint, pkId |-> pkId]

\* lines 389-393: the requests of ensureFolderPath for one part of the path
EnsureRequests(outcome) ==
    LET list == RunRequest("ensure", "listFiles", 0)
        create == RunRequest("ensure", "createFolder", 0)
    IN CASE outcome \in {"found", "list_failed"} -> <<list>>
         [] OTHER ->
              <<list>> \o [k \in 1..Len(Candidates) |-> create] \o <<list>>

\* lines 473-496: the requests of getRsaKey
RsaRequests(outcome) ==
    LET ask == RunRequest("rsa", "generateRsaKey", 0)
    IN IF outcome = "first" THEN <<ask>> ELSE <<ask, ask>>

\* faulty variant: a failure is followed by a request that removes what the
\* invocation made
AfterFailureCleanup(log) ==
    Append(log, RunRequest("cleanup", "deleteFile", 0))

\* lines 774-789: nothing catches what a stage throws: no further request
AfterFailure(log) == log

RunThrown(stage) == [state |-> "thrown", stage |-> stage]

InitRunUpload ==
    /\ UploadIdle
    /\ FolderIdle
    /\ ListVersionsIdle
    /\ RsaIdle
    /\ DownloadIdle
    /\ ShareIdle
    /\ DeepIdle
    /\ MainIdle
    /\ PagingIdle
    /\ AwaitIdle
    /\ SignIdle
    /\ ruPc = "start"
    /\ ruValid \in BOOLEAN
    /\ ruSegments \in 1..MaxRunSegments
    /\ ruSeg = 0
    /\ ruChunks \in 1..MaxRunChunks
    /\ ruPartNo = 0
    /\ ruRsa = 0
    /\ ruKeyCalls = 0
    /\ ruLog = <<>>
    /\ ruResult = [state |-> "running", stage |-> "none"]

\* lines 758-773: the fields and the local file
RunValidate ==
    /\ UNCHANGED othersOfRunUpload
    /\ ruPc = "start"
    /\ IF ruValid
       THEN /\ ruPc' = "ensure"
            /\ ruSeg' = 1
            /\ UNCHANGED ruResult
       ELSE /\ ruPc' = "thrown"
            /\ ruResult' = RunThrown("validate")
            /\ UNCHANGED ruSeg
    /\ UNCHANGED <<ruValid, ruSegments, ruChunks, ruPartNo, ruRsa, ruKeyCalls,
                   ruLog>>

\* lines 774-778: ensureFolderPath, one part of the path per step
RunEnsureSegment ==
    /\ UNCHANGED othersOfRunUpload
    /\ ruPc = "ensure"
    /\ \E outcome \in {"found", "created", "list_failed", "relist_failed",
                       "not_created"} :
         IF outcome \in {"found", "created"}
         THEN /\ ruLog' = ruLog \o EnsureRequests(outcome)
              /\ ruSeg' = ruSeg + 1
              /\ ruPc' = IF ruSeg + 1 > ruSegments THEN "rsa" ELSE "ensure"
              /\ UNCHANGED ruResult
         ELSE /\ ruLog' = AfterFailure(ruLog \o EnsureRequests(outcome))
              /\ ruPc' = "thrown"
              /\ ruResult' = RunThrown("ensure")
              /\ UNCHANGED ruSeg
    /\ UNCHANGED <<ruValid, ruSegments, ruChunks, ruPartNo, ruRsa, ruKeyCalls>>

\* line 780: getRsaKey
RunGetRsaKey ==
    /\ UNCHANGED othersOfRunUpload
    /\ ruPc = "rsa"
    /\ ruKeyCalls' = ruKeyCalls + 1
    /\ \E outcome \in {"first", "second", "none"} :
         IF outcome = "none"
         THEN /\ ruLog' = AfterFailure(ruLog \o RsaRequests(outcome))
              /\ ruPc' = "thrown"
              /\ ruResult' = RunThrown("rsa")
              /\ UNCHANGED ruRsa
         ELSE /\ ruLog' = ruLog \o RsaRequests(outcome)
              /\ ruRsa' = Len(ruLog) + Len(RsaRequests(outcome))
              /\ ruPc' = "init"
              /\ UNCHANGED ruResult
    /\ UNCHANGED <<ruValid, ruSegments, ruSeg, ruChunks, ruPartNo>>

\* lines 567-588: initMultiUpload
RunInit ==
    /\ UNCHANGED othersOfRunUpload
    /\ ruPc = "init"
    /\ \E ok \in BOOLEAN :
         LET asked == Append(ruLog, RunRequest("upload", "initMultiUpload", ruRsa))
         IN IF ok
            THEN /\ ruLog' = asked
                 /\ ruPartNo' = 1
                 /\ ruPc' = "part"
                 /\ UNCHANGED ruResult
            ELSE /\ ruLog' = AfterFailure(asked)
                 /\ ruPc' = "thrown"
                 /\ ruResult' = RunThrown("upload")
                 /\ UNCHANGED ruPartNo
    /\ UNCHANGED <<ruValid, ruSegments, ruSeg, ruChunks, ruRsa, ruKeyCalls>>

\* lines 595-639: one part: getMultiUploadUrls, then the PUT
RunPart ==
    /\ UNCHANGED othersOfRunUpload
    /\ ruPc = "part"
    /\ ruPartNo <= ruChunks
    /\ \E outcome \in {"ok", "url_failed", "put_failed"} :
         LET url == RunRequest("upload", "getMultiUploadUrls", ruRsa)
             put == RunRequest("upload", "put", 0)
             asked == IF outcome = "url_failed" THEN Append(ruLog, url)
                      ELSE ruLog \o <<url, put>>
         IN IF outcome = "ok"
            THEN /\ ruLog' = asked
                 /\ ruPartNo' = ruPartNo + 1
                 /\ ruPc' = IF ruPartNo + 1 > ruChunks THEN "commit" ELSE "part"
                 /\ UNCHANGED ruResult
            ELSE /\ ruLog' = AfterFailure(asked)
                 /\ ruPc' = "thrown"
                 /\ ruResult' = RunThrown("upload")
                 /\ UNCHANGED ruPartNo
    /\ UNCHANGED <<ruValid, ruSegments, ruSeg, ruChunks, ruRsa, ruKeyCalls>>

\* lines 649-676 and 791-800: the commit, and the value returned
RunCommit ==
    /\ UNCHANGED othersOfRunUpload
    /\ ruPc = "commit"
    /\ \E ok \in BOOLEAN :
         LET asked == Append(ruLog,
                             RunRequest("upload", "commitMultiUploadFile", ruRsa))
         IN IF ok
            THEN /\ ruLog' = asked
                 /\ ruPc' = "returned"
                 /\ ruResult' = [state |-> "returned", stage |-> "upload"]
            ELSE /\ ruLog' = AfterFailure(asked)
                 /\ ruPc' = "thrown"
                 /\ ruResult' = RunThrown("upload")
    /\ UNCHANGED <<ruValid, ruSegments, ruSeg, ruChunks, ruPartNo, ruRsa,
                   ruKeyCalls>>

NextRunUpload ==
    \/ RunValidate
    \/ RunEnsureSegment
    \/ RunGetRsaKey
    \/ RunInit
    \/ RunPart
    \/ RunCommit

SpecRunUpload == InitRunUpload /\ [][NextRunUpload]_vars

-----------------------------------------------------------------------------
(* Properties of the chunked upload.                                       *)

\* the k-th event of a run in which every request succeeds
CanonicalEvent(k, n) ==
    IF k = 1 THEN Req("init", 0)
    ELSE IF k = 2 THEN Resp("init", 0, TRUE)
    ELSE IF k = 2 + 5 * n + 1 THEN Req("commit", 0)
    ELSE IF k = 2 + 5 * n + 2 THEN Resp("commit", 0, TRUE)
    ELSE LET p == ((k - 3) \div 5) + 1
             r == (k - 3) % 5
         IN CASE r = 0 -> HashEv(p)
              [] r = 1 -> Req("geturl", p)
              [] r = 2 -> Resp("geturl", p, TRUE)
              [] r = 3 -> Req("put", p)
              [] OTHER -> Resp("put", p, TRUE)

NetIndex == 1..Len(net)

\* C1: the events of an upload are init, then for each part in increasing
\* order its hash, its URL request and its PUT, then the commit; the URL
\* request of part p+1 comes after the 2xx answer to the PUT of part p, and
\* the commit request after the 2xx answers to all N PUTs.
C1_UploadOrder ==
    /\ Len(net) <= 2 + 5 * chunkCount + 2
    /\ \A k \in NetIndex :
         \/ net[k] = CanonicalEvent(k, chunkCount)
         \/ /\ k = Len(net)
            /\ net[k].ev = "resp"
            /\ net[k] = [CanonicalEvent(k, chunkCount) EXCEPT !.ok = FALSE]
    /\ \A k \in NetIndex :
         (net[k].ev = "req" /\ net[k].op = "geturl" /\ net[k].part > 1)
            => \E j \in 1..(k - 1) : net[j] = Resp("put", net[k].part - 1, TRUE)
    /\ \A k \in NetIndex :
         (net[k].ev = "req" /\ net[k].op = "commit")
            => \A p \in 1..chunkCount :
                 \E j \in 1..(k - 1) : net[j] = Resp("put", p, TRUE)

C1_Witness ==
    /\ upc = "done"
    /\ fileSize = 25 * MiB
    /\ chunkCount = 3
    /\ Len(net) = 19

\* C2: a PUT answered with a non-2xx status is the last event of the
\* upload: no URL request, PUT or commit follows, and the call has thrown.
C2_PutFailureAborts ==
    \A k \in NetIndex :
        (net[k].ev = "resp" /\ net[k].op = "put" /\ ~net[k].ok)
           => /\ k = Len(net)
              /\ upc = "failed"
              /\ uresult.state = "thrown"
              /\ commitReqs = <<>>
              /\ Len(putReqs) = net[k].part
              /\ Len(urlReqs) = net[k].part

C2_Witness ==
    /\ upc = "failed"
    /\ chunkCount >= 3
    /\ Len(net) > 0
    /\ net[Len(net)] = Resp("put", 2, FALSE)

\* n is ceil(fs / cs)
IsCeil(n, fs, cs) == n * cs >= fs /\ (n - 1) * cs < fs

\* C3 as stated: for every file, the empty one included, the number of
\* parts processed and reported is ceil(fileSize / chunkSize).
C3_Original ==
    upc = "done" =>
        /\ Len(putReqs) = uresult.chunkCount
        /\ IsCeil(uresult.chunkCount, fileSize, chunkSize)

\* C3 amended: the number of parts processed and reported is
\* ceil(fileSize / chunkSize) for a file that is not empty, and 1 for the
\* empty file.
C3_ChunkCount ==
    /\ upc \notin {"start", "failed"} =>
         /\ chunkSize >= MiB
         /\ fileSize > 0 => IsCeil(chunkCount, fileSize, chunkSize)
         /\ fileSize = 0 => chunkCount = 1
    /\ upc \in {"commit_wait", "done"} =>
         /\ Len(reads) = chunkCount
         /\ Len(putReqs) = chunkCount
    /\ upc = "done" => uresult.chunkCount = chunkCount

C3_Witness ==
    /\ upc = "done"
    /\ fileSize = 25 * MiB
    /\ chunkSize = 10 * MiB
    /\ uresult.chunkCount = 3
    /\ Len(putReqs) = 3

ReadIndex == 1..Len(reads)

\* C4: the byte ranges read for the parts, [offset, offset + size) with
\* offset = (k-1)*chunkSize and size = min(chunkSize, fileSize - offset), are
\* pairwise disjoint, none passes the end of the file, each but the last has
\* chunkSize bytes, each starts where the one before ends, and once the loop
\* has run they cover [0, fileSize); an unchanged file yields the full range.
C4_RangesTile ==
    /\ \A k \in ReadIndex :
         /\ reads[k].part = k
         /\ reads[k].offset = (k - 1) * chunkSize
         /\ reads[k].size >= 0
         /\ reads[k].offset + reads[k].size <= fileSize
         /\ reads[k].size = chunkSize \/ reads[k].offset + reads[k].size = fileSize
         /\ k < chunkCount => reads[k].size = chunkSize
         /\ k = 1 => reads[k].offset = 0
         /\ k > 1 => reads[k].offset = reads[k - 1].offset + reads[k - 1].size
         /\ diskSize = fileSize => reads[k].readBytes = reads[k].size
    /\ \A k \in ReadIndex : \A j \in ReadIndex :
         k < j => reads[k].offset + reads[k].size <= reads[j].offset
    /\ upc \in {"commit_wait", "done"} =>
         /\ Len(reads) >= 1
         /\ reads[Len(reads)].offset + reads[Len(reads)].size = fileSize

C4_Witness ==
    /\ upc = "done"
    /\ fileSize = 2 * MiB + 1
    /\ chunkSize = MiB
    /\ Len(reads) = 3
    /\ reads[3].size = 1

RECURSIVE ConcatBodies(_, _)
ConcatBodies(reqs, n) ==
    IF n = 0 THEN NoBytes ELSE Concat(ConcatBodies(reqs, n - 1), reqs[n].body)

\* C5: the commit request carries as fileMd5 the MD5 of the chunks in file
\* order (the MD5 of the file when it did not change), and as sliceMd5 the
\* fileMd5 when there is one chunk, else the MD5 of the parts' upper-case
\* hex digests joined by newline in part order.
C5_CommitDigests ==
    \A c \in 1..Len(commitReqs) :
        LET n == Len(putReqs)
            form == commitReqs[c]
        IN /\ \A k \in 1..n : putReqs[k].part = k
           /\ form.fileMd5 = HexLower(Md5(ConcatBodies(putReqs, n)))
           /\ diskSize = fileSize
                => form.fileMd5 = HexLower(Md5(FileBytes(0, fileSize)))
           /\ n = 1 => form.sliceMd5 = form.fileMd5
           /\ n > 1 => form.sliceMd5 =
                HexLower(Md5(Utf8(JoinNewline(
                    [k \in 1..n |-> HexUpper(Md5(putReqs[k].body))]))))
           /\ (n = 1) = (fileSize <= chunkSize)

C5_Witness ==
    /\ Len(commitReqs) = 1
    /\ Len(putReqs) = 3
    /\ diskSize = fileSize
    /\ commitReqs[1].sliceMd5 # commitReqs[1].fileMd5

\* C6: after part i is hashed the list of part digests has i entries; when
\* the loop has run it has chunkCount entries; its k-th entry is the digest
\* of the bytes read for part k.
C6_PartDigestList ==
    /\ upc \in {"url_wait", "put_wait"} => Len(md5PartHexUpper) = i
    /\ upc = "loop" => Len(md5PartHexUpper) = i - 1
    /\ upc \in {"commit_wait", "done"} => Len(md5PartHexUpper) = chunkCount
    /\ Len(md5PartHexUpper) = Len(reads)
    /\ \A k \in 1..Len(md5PartHexUpper) :
         /\ reads[k].part = k
         /\ md5PartHexUpper[k] =
              HexUpper(Md5(FileBytes(reads[k].offset, reads[k].readBytes)))

C6_Witness ==
    /\ upc = "commit_wait"
    /\ chunkCount = 2
    /\ Len(md5PartHexUpper) = 2
    /\ md5PartHexUpper[1] # md5PartHexUpper[2]

\* C7: the file is opened at most once; it is open exactly while the part
\* loop runs; once the loop is left, by its end or by a throw, it has been
\* closed exactly once; it is closed when the commit is requested and when
\* the call returns or throws.
C7_FileHandle ==
    /\ openCount <= 1
    /\ closeCount <= openCount
    /\ (fd = "open") = (upc \in {"loop", "url_wait", "put_wait"})
    /\ (fd = "open") = (openCount = 1 /\ closeCount = 0)
    /\ upc \in {"commit_wait", "done", "failed"} =>
         /\ fd # "open"
         /\ closeCount = openCount
    /\ commitReqs # <<>> => (fd = "closed" /\ closeCount = 1)

C7_Witness ==
    /\ upc = "failed"
    /\ uresult.error = "missing_url"
    /\ i = 2
    /\ openCount = 1
    /\ closeCount = 1

-----------------------------------------------------------------------------
(* Properties of the folder path resolver.                                 *)

FlogIndex == 1..Len(flog)

\* the listing rows hold the name
Listed(rows, name) == \E r \in 1..Len(rows) : rows[r].name = name

\* the id of the first row of that name
FirstRowId(rows, name) ==
    rows[CHOOSE r \in 1..Len(rows) :
           /\ rows[r].name = name
           /\ \A q \in 1..(r - 1) : rows[q].name # name].id

SameTarget(e1, e2) == e1.parent = e2.parent /\ e1.name = e2.name

\* the k-th request is the listing that follows the five candidates
IsRelist(k) ==
    /\ flog[k].ev = "list"
    /\ k > 1
    /\ flog[k - 1].ev = "create"

\* the non-empty names among the first n parts
RECURSIVE NamedParts(_, _)
NamedParts(ps, n) ==
    IF n = 0 THEN 0
    ELSE NamedParts(ps, n - 1)
         + (IF normalizeFolderName(ps[n]) = <<>> THEN 0 ELSE 1)

\* C8: in ensure-path, a name absent from the first listing of its parent
\* is followed by the five creation candidates in their fixed order, each
\* attempted whatever the outcome of the ones before, and then by exactly
\* one more listing of the parent; if that listing holds the name the walk
\* goes on from the first folder of that name, otherwise ensure-path throws
\* "cannot create or locate directory: <name>" and makes no further request.
C8_EnsureCreation ==
    fcall = "ensure" =>
      /\ \A k \in FlogIndex :
           LET e == flog[k] IN
           /\ (e.ev = "list" /\ ~IsRelist(k) /\ e.ok /\ ~Listed(e.rows, e.name))
                => IF k = Len(flog)
                   THEN fpc = "create" /\ cand = 1 /\ attempts = <<>>
                   ELSE /\ flog[k + 1].ev = "create"
                        /\ flog[k + 1].cand = 1
                        /\ SameTarget(flog[k + 1], e)
           /\ (e.ev = "list" /\ ~IsRelist(k) /\ e.ok /\ Listed(e.rows, e.name))
                => IF k = Len(flog)
                   THEN parentFolderId = FirstRowId(e.rows, e.name)
                   ELSE /\ flog[k + 1].ev = "list"
                        /\ flog[k + 1].parent = FirstRowId(e.rows, e.name)
           /\ e.ev = "create"
                => /\ k > 1
                   /\ e.cand \in 1..Len(Candidates)
                   /\ IF e.cand = 1
                      THEN /\ flog[k - 1].ev = "list"
                           /\ flog[k - 1].ok
                           /\ ~Listed(flog[k - 1].rows, e.name)
                      ELSE /\ flog[k - 1].ev = "create"
                           /\ flog[k - 1].cand = e.cand - 1
                   /\ SameTarget(flog[k - 1], e)
                   /\ IF k = Len(flog)
                      THEN /\ Len(attempts) = e.cand
                           /\ IF e.cand = Len(Candidates)
                              THEN fpc = "relist"
                              ELSE fpc = "create" /\ cand = e.cand + 1
                      ELSE /\ SameTarget(flog[k + 1], e)
                           /\ IF e.cand = Len(Candidates)
                              THEN flog[k + 1].ev = "list"
                              ELSE /\ flog[k + 1].ev = "create"
                                   /\ flog[k + 1].cand = e.cand + 1
           /\ IsRelist(k)
                => /\ flog[k - 1].cand = Len(Candidates)
                   /\ SameTarget(flog[k - 1], e)
                   /\ (e.ok /\ Listed(e.rows, e.name))
                        => /\ FirstRowId(e.rows, e.name) # e.parent
                           /\ IF k = Len(flog)
                              THEN /\ fpc \in {"seg", "returned"}
                                   /\ parentFolderId = FirstRowId(e.rows, e.name)
                              ELSE /\ flog[k + 1].ev = "list"
                                   /\ flog[k + 1].parent = FirstRowId(e.rows, e.name)
                   /\ (e.ok /\ ~Listed(e.rows, e.name))
                        => /\ k = Len(flog)
                           /\ fpc = "thrown"
                           /\ fresult = FolderThrown("cannot_create_or_locate", e.name)
                           /\ e.name = normalizeFolderName(parts[idx])
      /\ \A t \in 1..Len(trace) :
           "attempts" \in DOMAIN trace[t]
             => /\ Len(trace[t].attempts) = Len(Candidates)
                /\ \A c \in 1..Len(Candidates) :
                     /\ trace[t].attempts[c].endpoint = Candidates[c].endpoint
                     /\ trace[t].attempts[c].method = Candidates[c].method
      /\ (fpc = "thrown" /\ fresult.error = "cannot_create_or_locate")
           => /\ IsRelist(Len(flog))
              /\ flog[Len(flog)].ok
              /\ ~Listed(flog[Len(flog)].rows, fresult.name)

C8_Witness ==
    /\ fcall = "ensure"
    /\ callNo = 1
    /\ fpc = "thrown"
    /\ fresult.error = "cannot_create_or_locate"
    /\ idx = 1
    /\ Len(parts) = 2
    /\ normalizeFolderName(parts[2]) # <<>>
    /\ Len(flog) = 7
    /\ ~attempts[1].ok
    /\ attempts[2].ok

\* C9: when ensure-path is called a second time with the same parts on a
\* backend that kept its folders, the second call makes no creation request,
\* leaves the backend's folders as they were, and returns the folder id the
\* first call returned.
C9_EnsureIdempotent ==
    (fcall = "ensure" /\ callNo = 2) =>
      /\ firstResult.state = "returned"
      /\ \A k \in FlogIndex : flog[k].ev = "list"
      /\ fpc \notin {"create", "relist"}
      /\ folders = folders0
      /\ fpc = "returned"
           => /\ fresult.folderId = firstResult.folderId
              /\ Len(flog) = NamedParts(parts, Len(parts))
              /\ \A t \in 1..Len(fresult.trace) :
                   /\ ~fresult.trace[t].created
                   /\ "found" \in DOMAIN fresult.trace[t]

C9_Witness ==
    /\ fcall = "ensure"
    /\ callNo = 2
    /\ fpc = "returned"
    /\ Len(firstResult.trace) = 2
    /\ firstResult.trace[1].created
    /\ firstResult.trace[2].created
    /\ fresult.folderId = firstResult.folderId
    /\ Len(folders) = 2

\* C10: find-path makes no creation request and leaves the backend as it
\* is; at the first part whose name its parent does not hold it returns
\* ok = false, reason "folder_not_found" and that part's name, having made
\* one listing request per part up to that one and none for the later ones.
C10_FindReadOnly ==
    fcall = "find" =>
      /\ folders = folders0
      /\ \A k \in FlogIndex : flog[k].ev = "list"
      /\ \A c \in 1..Len(Candidates) : contract[c] = "unknown"
      /\ \A t \in 1..Len(trace) :
           trace[t].found
             = HasChild(folders, trace[t].parent_folder_id, trace[t].folder_name)
      /\ \A t \in 1..(Len(trace) - 1) : trace[t].found
      /\ (Len(trace) > 0 /\ ~trace[Len(trace)].found)
           => /\ fpc = "returned"
              /\ fresult.state = "returned"
              /\ ~fresult.ok
              /\ fresult.reason = "folder_not_found"
              /\ fresult.missing_name = normalizeFolderName(parts[idx])
              /\ fresult.missing_name = trace[Len(trace)].folder_name
              /\ fresult.trace = trace
              /\ Len(flog) = NamedParts(parts, idx)
              /\ flog[Len(flog)].name = fresult.missing_name
      /\ (fpc = "returned" /\ fresult.ok)
           => /\ Len(trace) = NamedParts(parts, Len(parts))
              /\ \A t \in 1..Len(trace) : trace[t].found

C10_Witness ==
    /\ fcall = "find"
    /\ fpc = "returned"
    /\ ~fresult.ok
    /\ idx = 1
    /\ Len(parts) = 2
    /\ normalizeFolderName(parts[2]) # <<>>
    /\ Len(flog) = 1
    /\ folders # <<>>

-----------------------------------------------------------------------------
(* Properties of the list-versions action.                                 *)

\* the folder of the backend a trace entry stepped into
SteppedInto(entry, nextParent) ==
    \E k \in 1..Len(folders) :
        /\ folders[k].id = nextParent
        /\ folders[k].parent = entry.parent_folder_id
        /\ folders[k].name = entry.folder_name

\* C11: list-versions walks FreedeckCloudSaves/<parts> from the root, one
\* trace entry per segment visited, each entry's found telling whether the
\* parent holds the segment; at the first segment its parent does not hold
\* it returns exists = false, reason "folder_not_found", files = [] and the
\* trace ending in that segment with found = false, every earlier entry
\* having found = true, and no request of listFiles is made.
C11_ListVersionsMissing ==
    lpc # "idle" =>
      /\ Len(trace) <= Len(parts)
      /\ Len(trace) > 0 => trace[1].parent_folder_id = ROOT_FOLDER_ID
      /\ \A t \in 1..Len(trace) :
           /\ trace[t].folder_name = parts[t]
           /\ trace[t].found = HasChild(folders, trace[t].parent_folder_id,
                                        trace[t].folder_name)
      /\ \A t \in 1..(Len(trace) - 1) :
           /\ trace[t].found
           /\ SteppedInto(trace[t], trace[t + 1].parent_folder_id)
      /\ (Len(trace) > 0 /\ ~trace[Len(trace)].found)
           => /\ fileReqs = <<>>
              /\ lpc \in {"finding", "done"}
              /\ lpc = "done"
                   => /\ lresult.state = "returned"
                      /\ lresult.exists = FALSE
                      /\ lresult.reason = "folder_not_found"
                      /\ lresult.files = <<>>
                      /\ lresult.trace = trace
      /\ fileReqs # <<>>
           => /\ Len(trace) = Len(parts)
              /\ \A t \in 1..Len(trace) : trace[t].found

C11_Witness ==
    /\ lpc = "done"
    /\ lresult.state = "returned"
    /\ ~lresult.exists
    /\ Len(parts) = 3
    /\ Len(lresult.trace) = 2
    /\ lresult.trace[1].found
    /\ ~lresult.trace[2].found
    /\ lresult.trace[2].folder_name = <<"a">>
    /\ fileServer.rows # <<>>
    /\ fileReqs = <<>>

-----------------------------------------------------------------------------
(* Properties of the RSA key acquisition.                                  *)

HasText(value) == \E k \in 1..Len(value) : value[k] # " "

\* the backend's answer is a successful payload with a public key and a
\* key id
Usable(resp) ==
    /\ resp.kind = "payload"
    /\ resp.code \in {"", "0", "SUCCESS", "success"}
    /\ HasText(resp.pubKey) \/ HasText(resp.data.pubKey)
    /\ HasText(resp.pkId) \/ HasText(resp.data.pkId)

\* C12: the first key request goes unsigned to the web host and the second
\* signed to the API host; the second is made only if the first failed or
\* lacked material, a usable first answer ending the acquisition; the keys
\* returned are a non-empty public key and a non-empty key id, both read
\* from the answer to the last request made.
C12_RsaOrder ==
    rpc # "idle" =>
      /\ Len(rreqs) <= 2
      /\ Len(rresps) = Len(rreqs)
      /\ Len(rreqs) >= 1
           => /\ rreqs[1].source = "cloud_unsigned"
              /\ rreqs[1].host = "https://cloud.189.cn"
              /\ ~rreqs[1].signed
              /\ Usable(rresps[1]) => (rpc = "returned" /\ Len(rreqs) = 1)
      /\ Len(rreqs) = 2
           => /\ rreqs[2].source = "api_signed"
              /\ rreqs[2].host = "https://api.cloud.189.cn"
              /\ rreqs[2].signed
              /\ ~Usable(rresps[1])
      /\ rpc = "returned"
           => LET resp == rresps[Len(rresps)]
              IN /\ Usable(resp)
                 /\ HasText(rresult.pubKey)
                 /\ HasText(rresult.pkId)
                 /\ rresult.pubKey \in {Trim(resp.pubKey), Trim(resp.data.pubKey)}
                 /\ rresult.pkId \in {Trim(resp.pkId), Trim(resp.data.pkId)}

C12_Witness ==
    /\ rpc = "returned"
    /\ Len(rreqs) = 2
    /\ rresps[1].kind = "payload"
    /\ rresps[1].code = "0"
    /\ rresps[1].pubKey = KeyText("pub", 1, "top")
    /\ rresps[1].pkId = <<" ">>
    /\ rresps[1].data = NoData
    /\ rresult.pubKey = KeyText("pub", 2, "top")
    /\ rresult.pkId = KeyText("id", 2, "data")

\* C13: the acquisition ends in an error exactly when neither candidate's
\* answer was usable; the error then carries two attempt records, the
\* first of cloud_unsigned and the second of api_signed, both not ok, and
\* two key requests were made; there is never a third request.
C13_RsaFailure ==
    /\ Len(rreqs) <= Len(RsaCandidates)
    /\ rpc \in {"returned", "thrown"}
         => (rpc = "thrown"
               <=> /\ Len(rresps) = 2
                   /\ ~Usable(rresps[1])
                   /\ ~Usable(rresps[2]))
    /\ rpc = "thrown"
         => /\ Len(rreqs) = 2
            /\ rresult.state = "thrown"
            /\ Len(rresult.attempts) = 2
            /\ rresult.attempts[1].source = "cloud_unsigned"
            /\ rresult.attempts[2].source = "api_signed"
            /\ \A k \in 1..2 : ~rresult.attempts[k].ok

C13_Witness ==
    /\ rpc = "thrown"
    /\ rresps[1].kind = "error"
    /\ rresps[2].kind = "payload"
    /\ rresps[2].code = ""
    /\ rresps[2].pubKey = KeyText("pub", 2, "top")
    /\ rresps[2].pkId = <<>>
    /\ rresps[2].data.pkId = <<>>
    /\ rresult.attempts[1].message = "request_failed"
    /\ rresult.attempts[2].message = "missing_pubKey_pkId"

-----------------------------------------------------------------------------
(* Properties of the download action.                                      *)

\* the backend's answer is a successful payload holding a URL
UsableUrl(resp) ==
    /\ resp.kind = "payload"
    /\ resp.code \in {"", "0", "SUCCESS", "success"}
    /\ \/ HasText(resp.fileDownloadUrl) \/ HasText(resp.downloadUrl)
       \/ HasText(resp.url)
       \/ HasText(resp.data.fileDownloadUrl) \/ HasText(resp.data.downloadUrl)
       \/ HasText(resp.data.url)

UrlsOf(resp) ==
    {resp.fileDownloadUrl, resp.downloadUrl, resp.url,
     resp.data.fileDownloadUrl, resp.data.downloadUrl, resp.data.url}

UrlRequestIndex == 1..Len(dreqs)

\* C14: the URL requests are, in order, open-API with dt = 1, open-API
\* without hint, token-signed with dt = 1, token-signed without hint; a
\* request is made only after every earlier answer held no URL, and the
\* first answer holding one ends the resolution with a URL of that answer;
\* each answer without a URL adds one failed record to the attempts; the
\* compound error is thrown exactly when all four answers held no URL, with
\* the four records.
C14_UrlOrder ==
    dpc # "idle" =>
      /\ Len(dreqs) <= 4
      /\ Len(dresps) = Len(dreqs)
      /\ \A k \in UrlRequestIndex :
           /\ dreqs[k].api = (IF k <= 2 THEN "open_api" ELSE "api_signed")
           /\ dreqs[k].dt = (IF k \in {1, 3} THEN "1" ELSE "")
           /\ dreqs[k].host = (IF k <= 2 THEN "https://cloud.189.cn"
                               ELSE "https://api.cloud.189.cn")
      /\ \A k \in 1..(Len(dreqs) - 1) : ~UsableUrl(dresps[k])
      /\ Len(dattempts) = Cardinality({k \in UrlRequestIndex : ~UsableUrl(dresps[k])})
      /\ \A k \in 1..Len(dattempts) : ~dattempts[k].ok
      /\ (Len(dreqs) >= 1 /\ UsableUrl(dresps[Len(dreqs)]))
           => /\ dpc # "url"
              /\ HasText(downloadUrl)
              /\ downloadUrl \in UrlsOf(dresps[Len(dreqs)])
      /\ (dpc = "done" /\ dresult.state = "thrown"
            /\ dresult.error = "download_url_failed")
           <=> (Len(dreqs) = 4 /\ \A k \in 1..4 : ~UsableUrl(dresps[k]))
      /\ (dpc = "done" /\ dresult.state = "thrown"
            /\ dresult.error = "download_url_failed")
           => (dresult.attempts = dattempts /\ Len(dattempts) = 4)

C14_Witness ==
    /\ dpc = "fetch"
    /\ Len(dreqs) = 2
    /\ dresps[1].kind = "payload"
    /\ dresps[1].code = "0"
    /\ downloadUrl = UrlText(2, "data.downloadUrl")
    /\ Len(dattempts) = 1
    /\ dattempts[1].reason = "missing_url"

\* C15: when the first two URL candidates fail and the third answers with
\* a URL, the download action succeeds with that URL and its result
\* carries diagnostics whose attempts 1 and 2 are marked failed.
C15_AttemptsOnSuccess ==
    (/\ dpc = "done"
     /\ dresult.state = "returned"
     /\ Len(dresps) = 3
     /\ dresps[1].kind = "error"
     /\ dresps[2].kind = "error")
      => /\ dresult.data.download_url \in UrlsOf(dresps[3])
         /\ HasText(dresult.data.download_url)
         /\ "diagnostics" \in DOMAIN Output(dresult)
         /\ "attempts" \in DOMAIN Output(dresult).diagnostics
         /\ Len(Output(dresult).diagnostics.attempts) >= 2
         /\ ~Output(dresult).diagnostics.attempts[1].ok
         /\ ~Output(dresult).diagnostics.attempts[2].ok

\* C16: unless the fetch of the download URL answered with a 2xx status
\* and a body, the destination file is as it was before the action and
\* the action fails; the action returns a result only when the pipeline
\* ended without an error, and the size it reports is that of the file.
C16_DownloadAllOrNothing ==
    dpc # "idle" =>
      /\ fetchResp # "ok" => (destFile = destFile0 /\ stream = "none")
      /\ fetchResp \in {"reject", "non2xx", "no_body"}
           => (dpc = "done" /\ dresult.state = "thrown")
      /\ (dpc = "done" /\ dresult.state = "returned")
           => /\ fetchResp = "ok"
              /\ stream = "ended"
              /\ destFile.exists
              /\ dresult.data.file_size = Len(destFile.bytes)
      /\ (dpc = "done" /\ stream \in {"none", "error"})
           => dresult.state = "thrown"

C16_Witness ==
    /\ dpc = "done"
    /\ fetchResp = "non2xx"
    /\ dirMade
    /\ destFile0 = OldFile
    /\ destFile = OldFile
    /\ dresult.state = "thrown"
    /\ dresult.error = "download_failed_status"

-----------------------------------------------------------------------------
(* Properties of the share link resolver.                                  *)

ExpectedHost(shareUrl) ==
    ToLowerHost(shareUrl.hostname) \in {"cloud.189.cn", "www.cloud.189.cn"}

\* the path is /t/<code>: "/t/" and then a code without a slash
StrictShareForm(pathname) ==
    /\ Len(pathname) >= 4
    /\ SubSeq(pathname, 1, 3) = <<"/", "t", "/">>
    /\ \A k \in 4..Len(pathname) : pathname[k] # "/"

\* the path's first non-empty segment is t and a second one follows it
LooseShareForm(pathname) ==
    LET NonEmpty(segment) == segment # <<>>
        segments == SelectSeq(SplitSlash(pathname, <<>>), NonEmpty)
    IN Len(segments) >= 2 /\ segments[1] = <<"t">>

ValidationErrors ==
    {"share_url_empty", "cookie_empty", "share_url_invalid",
     "share_host_invalid", "share_path_invalid"}

FailedValidation ==
    /\ spc = "done"
    /\ sresult.state = "thrown"
    /\ sresult.error \in ValidationErrors

\* C17 as stated: a URL whose host is not the expected domain or whose path
\* is not exactly /t/<code> fails with a validation error and no request
\* is made.
C17_Original ==
    (/\ spc # "idle"
     /\ sinput.share_url.text = "url"
     /\ \/ ~ExpectedHost(sinput.share_url)
        \/ ~StrictShareForm(sinput.share_url.pathname))
      => /\ scalls = <<>>
         /\ spc \in {"start", "done"}
         /\ spc = "done" => FailedValidation

\* C17, amended: a URL whose host is not cloud.189.cn or www.cloud.189.cn,
\* or whose path does not have t as its first non-empty segment and a
\* second non-empty segment after it, fails with a validation error and no
\* request is made; a path with further segments after the code, or with
\* empty segments, is accepted, the second non-empty segment being the
\* share code.
C17_Validation ==
    (spc # "idle" /\ sinput.share_url.text = "url") =>
      /\ (\/ ~ExpectedHost(sinput.share_url)
          \/ ~LooseShareForm(sinput.share_url.pathname))
           => /\ scalls = <<>>
              /\ spc \in {"start", "done"}
              /\ spc = "done" => FailedValidation
      /\ (/\ ExpectedHost(sinput.share_url)
          /\ LooseShareForm(sinput.share_url.pathname)
          /\ spc = "done"
          /\ sresult.state = "thrown")
           => sresult.error \notin {"share_host_invalid", "share_path_invalid"}
      /\ \A k \in 1..Len(scalls) :
           scalls[k].endpoint \in {CHECK_ENDPOINT, INFO_ENDPOINT}
             => scalls[k].shareCode = <<"A", "B">>

C17_Witness ==
    /\ spc = "done"
    /\ sinput.share_url.hostname = "cloud.189.cn"
    /\ sinput.share_url.pathname = <<"/", "T", "/", "A", "B">>
    /\ sinput.cookie = <<"k">>
    /\ fetchAvailable
    /\ sresult.state = "thrown"
    /\ sresult.error = "share_path_invalid"
    /\ scalls = <<>>

PassedValidation ==
    /\ spc \notin {"idle", "start"}
    /\ ~FailedValidation

CallsTo(endpoint) == {k \in 1..Len(scalls) : scalls[k].endpoint = endpoint}

\* C18: for a share URL that passes validation, the access-code check is
\* requested if and only if the URL carries a non-empty pwd, it is requested
\* before the share-info request, and by the end of the run the share-info
\* request has been made exactly once, whatever became of the access-code
\* check.
C18_CallOrder ==
    (PassedValidation /\ spc = "done") =>
      /\ (CallsTo(CHECK_ENDPOINT) # {}) <=> (AccessCode # <<>>)
      /\ \A checked \in CallsTo(CHECK_ENDPOINT) :
           \A asked \in CallsTo(INFO_ENDPOINT) : checked < asked
      /\ Cardinality(CallsTo(INFO_ENDPOINT)) = 1

ShareIdKeys == {"shareId", "shareID", "shareid"}

\* what structured parsing of the two responses recovers
ParsedShareId ==
    LET fromInfo == getDeepString(parseJsonLike(infoResp.body), ShareIdKeys)
        fromCheck == getDeepString(parseJsonLike(checkResp.body), ShareIdKeys)
    IN IF fromInfo # <<>> THEN fromInfo ELSE fromCheck

XYZ789 == <<"x", "y", "z", "7", "8", "9">>

ListingRequested == CallsTo(LIST_ENDPOINT) # {}

\* C19: once the share-info response is in, the shareId is the one structured
\* parsing of the access-code-check and share-info responses recovered
\* whenever it recovered one; only otherwise is it the match of the patterns
\* in the share-info response body, and only when the body has no match is
\* it the match in the final redirected URL.  When neither parsed payload
\* has a shareId and the body contains "shareId":"xyz789", the shareId is
\* xyz789 and the resolver goes on to the listing request.
C19_RegexFallback ==
    (spc # "idle" /\ infoResp # NoResponse) =>
      LET fromBody == extractShareIdFromText(infoResp.body.frags)
          fromUrl == extractShareIdFromText(infoResp.url)
          quoted == Pair("shareId", XYZ789, TRUE, FALSE)
          bare == Bare("shareId", <<"b", "a", "r", "e", "1", "%", "x">>)
          query == Query("shareId", <<"u", "r", "l", "1", "&", "x">>)
          InBody(frag) == \E k \in 1..Len(infoResp.body.frags) :
                             infoResp.body.frags[k] = frag
          InUrl(frag) == \E k \in 1..Len(infoResp.url) : infoResp.url[k] = frag
      IN /\ ParsedShareId # <<>> => shareId = ParsedShareId
         /\ (ParsedShareId = <<>> /\ fromBody # <<>>) => shareId = fromBody
         /\ (ParsedShareId = <<>> /\ fromBody = <<>>) => shareId = fromUrl
         /\ (ParsedShareId = <<>> /\ InBody(bare))
              => shareId = <<"b", "a", "r", "e", "1">>
         /\ (ParsedShareId = <<>> /\ infoResp.body.frags = <<OtherText>>
               /\ InUrl(query))
              => shareId = <<"u", "r", "l", "1">>
         /\ (ParsedShareId = <<>> /\ InBody(quoted))
              => /\ shareId = XYZ789
                 /\ spc \in {"list", "done"}
                 /\ spc = "done" => ListingRequested

C19_Witness ==
    /\ spc = "done"
    /\ AccessCode = <<"1", "2", "3", "4">>
    /\ checkResp.status = 200
    /\ ParsedShareId = <<>>
    /\ infoResp.body.wrap = "html"
    /\ infoResp.url = PlainUrl
    /\ shareId = XYZ789
    /\ Len(scalls) = 3
    /\ scalls[3].endpoint = LIST_ENDPOINT
    /\ scalls[3].shareId = XYZ789
    /\ sresult.state = "returned"
    /\ sresult.ok
    /\ sresult.data.share_id = XYZ789

\* C20: when the share-info response is in and neither structured parsing
\* nor the patterns recovered a shareId, the run has ended by returning a
\* value (not by throwing) with ok = false that carries the share code, the
\* share URL and every attempt recorded, and no listing request was made;
\* a listing request is only ever made with a shareId.
C20_NoShareIdFailure ==
    /\ (spc # "idle" /\ infoResp # NoResponse /\ shareId = <<>>) =>
         /\ spc = "done"
         /\ sresult.state = "returned"
         /\ ~sresult.ok
         /\ sresult.error = "js_share_parse_failed_no_shareid"
         /\ sresult.diagnostics.share_code = ShareCode
         /\ sresult.diagnostics.share_url = sinput.share_url
         /\ sresult.diagnostics.attempts = sattempts
         /\ Len(sattempts) = 2
         /\ sattempts[1].step = "check_access_code_primary_js"
         /\ sattempts[2].step = "get_share_info_js"
         /\ ~ListingRequested
    /\ \A k \in CallsTo(LIST_ENDPOINT) :
         scalls[k].shareId # <<>> /\ scalls[k].shareId = shareId
    /\ (spc = "done" /\ sresult.state = "returned" /\ ~sresult.ok)
         => (shareId = <<>> /\ infoResp # NoResponse)

C20_Witness ==
    /\ spc = "done"
    /\ AccessCode = <<"1", "2", "3", "4">>
    /\ checkResp.status = 403
    /\ infoResp.status = 404
    /\ shareId = <<>>
    /\ sresult.state = "returned"
    /\ ~sresult.ok
    /\ Len(sresult.diagnostics.attempts) = 2
    /\ sresult.diagnostics.attempts[1].status = 403
    /\ Len(scalls) = 2

\* what the deep search finds in the share-info payload
InfoField(keys) == getDeepString(parseJsonLike(infoResp.body), keys)

ResolvedOk ==
    /\ spc = "done"
    /\ sresult.state = "returned"
    /\ sresult.ok

\* C21: a listing request always carries a non-empty shareId; there is never
\* more than one, and a resolution that ends with ok = true has made exactly
\* one.  When the isFolder value of share-info is "1" or "true" the request
\* has isFolder = true, page size 60 and the shareId as file id; otherwise it
\* has isFolder = false, page size 10 and the root file id, which is the
\* fileId of share-info, or the shareId when share-info has none.
C21_Listing ==
    /\ Cardinality(CallsTo(LIST_ENDPOINT)) <= 1
    /\ ResolvedOk => Cardinality(CallsTo(LIST_ENDPOINT)) = 1
    /\ \A k \in CallsTo(LIST_ENDPOINT) :
         LET listing == scalls[k]
             flag == InfoField({"isFolder"})
             suppliedFileId == InfoField({"fileId", "fileID", "fileid"})
         IN /\ listing.shareId # <<>>
            /\ listing.shareId = shareId
            /\ IF flag \in {<<"1">>, <<"t", "r", "u", "e">>}
               THEN /\ listing.isFolder
                    /\ listing.pageSize = 60
                    /\ listing.fileId = listing.shareId
               ELSE /\ ~listing.isFolder
                    /\ listing.pageSize = 10
                    /\ listing.fileId = rootFileId
                    /\ rootFileId = IF suppliedFileId # <<>> THEN suppliedFileId
                                    ELSE listing.shareId

C21_Witness ==
    /\ ResolvedOk
    /\ InfoField({"fileId"}) = <<>>
    /\ InfoField({"isFolder"}) = <<>>
    /\ shareId = <<"1", "2">>
    /\ Len(scalls) = 2
    /\ scalls[2].endpoint = LIST_ENDPOINT
    /\ scalls[2].fileId = <<"1", "2">>
    /\ scalls[2].pageSize = 10

\* the rows of the listing that have an id
RowsWithId ==
    LET rows == ListedRows(listResp.body)
        HasId(row) == Trim(IF row.id # <<>> THEN row.id ELSE row.fileId) # <<>>
    IN SelectSeq(rows, HasId)

\* the entry that describes the root file of the share
RootFileEntry ==
    LET rootName == InfoField({"name", "fileName"})
    IN [file_id |-> rootFileId,
        name |-> IF rootName # <<>> THEN rootName ELSE <<"single-file">>,
        size |-> asInt(InfoField({"size", "fileSize"}), 0),
        is_folder |-> FALSE]

\* C22: the files of a successful resolution are the single entry describing
\* the root file exactly when the listing mapped to no file and a root file
\* id is known; when the listing maps to at least one file they are the
\* mapped rows, one per row with an id and in the rows' order, each with a
\* non-empty file id, and the root file's entry is not among them.
C22_SyntheticEntry ==
    ResolvedOk =>
      LET files == sresult.data.files
      IN /\ (files = <<RootFileEntry>>) <=> (RowsWithId = <<>> /\ rootFileId # <<>>)
         /\ RowsWithId # <<>> =>
              /\ Len(files) = Len(RowsWithId)
              /\ \A k \in 1..Len(files) :
                   /\ files[k].file_id # <<>>
                   /\ files[k].file_id =
                        Trim(IF RowsWithId[k].id # <<>> THEN RowsWithId[k].id
                             ELSE RowsWithId[k].fileId)
                   /\ files[k] # RootFileEntry

C22_Witness ==
    /\ ResolvedOk
    /\ listResp.status = 200
    /\ Len(ListedRows(listResp.body)) = 2
    /\ RowsWithId = <<>>
    /\ InfoField({"fileId"}) = <<"f", "1">>
    /\ sresult.data.files =
         <<[file_id |-> <<"f", "1">>, name |-> <<"n", "1">>, size |-> 42,
            is_folder |-> FALSE]>>

-----------------------------------------------------------------------------
(* Properties of the deep-key search.                                      *)

\* the nodes that can be reached from the payload
RECURSIVE ReachableFrom(_)
ReachableFrom(set) ==
    LET RefsOf(n) == {deepNodes[n].entries[k].ref :
                        k \in DOMAIN deepNodes[n].entries}
        next == set \cup (UNION {RefsOf(n) : n \in set} \ {0})
    IN IF next = set THEN set ELSE ReachableFrom(next)

\* the entries of a node that end the search: a wanted key, in any case,
\* with a non-empty text for getDeepString, with an array for getDeepArray
MatchesOf(n) ==
    LET entries == deepNodes[n].entries
        Ends(entry) ==
            /\ ~deepNodes[n].isArray
            /\ entry.key \in {"fileId", "fileID"}
            /\ IF deepMode = "string" THEN entry.text # <<>>
               ELSE entry.ref # 0 /\ deepNodes[entry.ref].isArray
    IN SelectSeq(entries, Ends)

ReferenceCount ==
    LET Refs(n) == {k \in DOMAIN deepNodes[n].entries :
                      deepNodes[n].entries[k].ref # 0}
        Sum[n \in 0..MaxNodes] ==
            IF n = 0 THEN 0 ELSE Sum[n - 1] + Cardinality(Refs(n))
    IN Sum[MaxNodes]

\* C23: on every graph, cyclic or not, the search ends: it takes a node off
\* the stack at most once more than the graph has references, it scans no
\* node twice, and it can take a step whenever it has not ended.  What it
\* returns is the first match of the first scanned node that has one: no
\* node scanned before it has a match, and the nested objects of the node
\* with the match are not scanned; when it returns nothing every node
\* reachable from the payload was scanned and none has a match.  The
\* result is the one getDeepString / getDeepArray computes.
C23_DeepSearch ==
    deepPc # "idle" =>
      /\ deepPops <= 1 + ReferenceCount
      /\ \A a, b \in 1..Len(deepOrder) : deepOrder[a] = deepOrder[b] => a = b
      /\ deepPc = "run" => ENABLED DeepStep
      /\ \A k \in 1..(Len(deepOrder) - 1) : MatchesOf(deepOrder[k]) = <<>>
      /\ deepPc = "done" =>
           LET payload == [root |-> 1, nodes |-> deepNodes]
               last == deepOrder[Len(deepOrder)]
           IN /\ deepResult.found <=> MatchesOf(last) # <<>>
              /\ deepResult.found =>
                   /\ deepResult.text =
                        (IF deepMode = "string" THEN Head(MatchesOf(last)).text
                         ELSE <<>>)
                   /\ deepResult.ref =
                        (IF deepMode = "string" THEN 0
                         ELSE Head(MatchesOf(last)).ref)
              /\ ~deepResult.found =>
                   {deepOrder[k] : k \in 1..Len(deepOrder)} = ReachableFrom({1})
              /\ deepMode = "string" =>
                   deepResult.text = getDeepString(payload, SearchKeys)
              /\ deepMode = "array" =>
                   deepResult.ref = getDeepArray(payload, SearchKeys)

\* a cycle through an array: the payload refers twice to an array whose item
\* is the payload, and the search ends without a match after skipping both
\* nodes once
C23_Witness ==
    /\ deepPc = "done"
    /\ deepMode = "string"
    /\ Len(deepNodes[1].entries) = 2
    /\ deepNodes[1].entries[1] = [key |-> "x", text |-> <<"[object Object]">>, ref |-> 2]
    /\ deepNodes[1].entries[2] = deepNodes[1].entries[1]
    /\ deepNodes[2].isArray
    /\ Len(deepNodes[2].entries) = 1
    /\ deepNodes[2].entries[1].ref = 1
    /\ deepOrder = <<1, 2>>
    /\ deepPops = 4
    /\ ~deepResult.found

-----------------------------------------------------------------------------
(* Properties of the entry points.                                         *)

\* C24: when a run of either script has ended it has written exactly one
\* result object, and its exit status is not zero when that object has
\* ok = false.
C24_OneResult ==
    (mpc = "done") =>
      /\ Len(mstdout) = 1
      /\ ~mstdout[1].ok => mexit # 0

\* C25: every result written with ok = false carries diagnostics next to
\* its error message.
C25_FailureDiagnostics ==
    \A k \in 1..Len(mstdout) :
      ~mstdout[k].ok => {"error", "diagnostics"} \subseteq DOMAIN mstdout[k]

RequestParsed ==
    /\ mpc \notin {"idle", "read"}
    /\ mstdin.kind \in {"null", "object"}

UploadTexts == {<<>>, <<"upload">>, <<" ", "Upload", " ">>}

DownloadFileTexts == {<<"download_file">>, <<"DOWNLOAD_FILE", " ">>}

Unsupported ==
    /\ mop = "none"
    /\ mpc = "done"
    /\ mrun = MainThrown("unsupported_action")
    /\ ~mnet

\* C26 as stated: the actions upload, list_versions and download each run
\* their operation and none of them ends in the unsupported-action error.
C26_Original ==
    (mscript = "uploader" /\ RequestParsed) =>
      /\ mstdin.request.action \in UploadTexts => mop = "upload"
      /\ mstdin.request.action = <<"list_versions">> => mop = "list_versions"
      /\ mstdin.request.action = <<"download">>
           => (mop = "download_file" /\ ~Unsupported)

\* C26, amended: the action, trimmed and in lower case, selects the
\* operation: upload (also when the request has no action) runs the upload,
\* list_versions runs list-versions and download_file runs the download;
\* none of the three ends in the unsupported-action error, and every other
\* action, download among them, does, before any request is made.
C26_Dispatch ==
    (mscript = "uploader" /\ RequestParsed) =>
      /\ mstdin.request.action \in UploadTexts
           => (mop = "upload" /\ ~Unsupported)
      /\ mstdin.request.action = <<"list_versions">>
           => (mop = "list_versions" /\ ~Unsupported)
      /\ mstdin.request.action \in DownloadFileTexts
           => (mop = "download_file" /\ ~Unsupported)
      /\ mstdin.request.action \in {<<"download">>, <<"delete">>, <<" ">>}
           => /\ Unsupported
              /\ mstdout = <<Output(MainThrown("unsupported_action"))>>
              /\ mexit = 1

C26_Witness ==
    /\ mscript = "uploader"
    /\ mpc = "done"
    /\ mstdin.kind = "object"
    /\ mstdin.request.action = <<"DOWNLOAD_FILE", " ">>
    /\ mop = "download_file"
    /\ mnet
    /\ mrun.state = "returned"
    /\ Len(mstdout) = 1
    /\ mstdout[1].ok
    /\ mexit = 0

\* the fields an operation cannot do without
RequiredFields(operation) ==
    CASE operation = "upload" ->
           {"cookie", "access_token", "session_key", "local_file_path"}
      [] operation = "list_versions" -> {"cookie", "session_key"}
      [] operation = "download_file" ->
           {"cookie", "access_token", "session_key", "file_id", "local_file_path"}
      [] operation = "share" -> {"cookie", "share_url"}
      [] OTHER -> {}

Blank(request, field) ==
    IF field = "share_url" THEN request.share_url.text = "empty"
    ELSE Trim(request[field]) = <<>>

InputErrors ==
    {"missing_cookie", "missing_access_token", "missing_session_key",
     "missing_file_id", "missing_local_file_path", "upload_file_missing",
     "share_url_empty", "cookie_empty"}

\* C27: for the upload, list-versions, the download and the share
\* resolution, when a field the operation requires is missing, empty or
\* blank in the request, no network request is made and the operation ends
\* by throwing an input validation error (the resolver given the JSON null
\* for a request throws a TypeError at its first line instead).
C27_RequiredFields ==
    (RequestParsed /\ \E f \in RequiredFields(mop) : Blank(mstdin.request, f)) =>
      /\ ~mnet
      /\ mpc = "done"
      /\ mrun.state = "thrown"
      /\ mrun.error \in
           (IF mscript = "resolver" /\ mstdin.kind = "null" THEN {"type_error"}
            ELSE InputErrors)
      /\ Len(mstdout) = 1
      /\ ~mstdout[1].ok

C27_Witness ==
    /\ mscript = "uploader"
    /\ mpc = "done"
    /\ mop = "download_file"
    /\ mstdin.request.cookie = <<"k">>
    /\ mstdin.request.file_id = <<" ">>
    /\ mrun = MainThrown("missing_file_id")
    /\ ~mnet

-----------------------------------------------------------------------------
(* The error of ensureFolderPath.                                          *)

\* C28: when every creation candidate was tried and the folder is still not
\* listed, the error ensureFolderPath throws carries the attempts, one
\* record per creation candidate.
C28_ErrorEmbedsTrace ==
    (/\ fcall = "ensure"
     /\ fpc = "thrown"
     /\ fresult.error = "cannot_create_or_locate")
      => /\ "attempts" \in DOMAIN fresult
         /\ Len(fresult.attempts) = Len(Candidates)

-----------------------------------------------------------------------------
(* Properties of the paging loop of listFolders and listFiles.             *)

\* the page number at which the reported count says the listing is complete
PagesOfCount(count) == CeilDiv(count, 60)

\* C29: the listing loop ends: it asks for at most 20 pages of folders and
\* at most 30 pages of files, for pages 1, 2, 3, ... in this order, and it
\* asks for a further page only after a page that had items and whose number
\* was below ceil(count / 60); while it has not ended its next request can
\* be made, and once it has returned its last page had no items, or reached
\* ceil(count / 60), or was the last page allowed
C29_PagingStops ==
    LET n == Len(pgLog)
    IN /\ n <= IF pgKind = "folders" THEN 20 ELSE 30
       /\ \A k \in 1..n : pgLog[k].page = k
       /\ \A k \in 1..(n - 1) :
            /\ pgLog[k].answered
            /\ pgLog[k].items > 0
            /\ k < PagesOfCount(pgLog[k].count)
       /\ pgPc = "paging" => (pgNum = n + 1 /\ ENABLED PageRequest)
       /\ pgPc = "returned" =>
            /\ n >= 1
            /\ pgLog[n].answered
            /\ \/ pgLog[n].items = 0
               \/ n >= PagesOfCount(pgLog[n].count)
               \/ n = IF pgKind = "folders" THEN 20 ELSE 30

\* a listing of files that ended on a page without items after full pages,
\* although the count promised more
C29_Witness ==
    /\ pgPc = "returned"
    /\ pgKind = "files"
    /\ Len(pgLog) = 4
    /\ pgLog[2].items = 60
    /\ pgLog[3].items = 5
    /\ pgLog[4].items = 0
    /\ pgLog[4].count = 1500

-----------------------------------------------------------------------------
(* Properties of the loops that await their requests.                      *)

\* C30: at most one request is under way at any time: a request of the
\* folder-creation, RSA-key, upload-part and download-URL loops is started
\* only when every request started before it has settled, the one just
\* before it being the last thing that happened
C30_OneRequestAtATime ==
    /\ Len(awPending) <= 1
    /\ \A k \in 1..Len(awLog) :
         awLog[k].event = "started" =>
           /\ k > 1 => awLog[k - 1].event = "settled"
           /\ LET before == {j \in 1..(k - 1) : awLog[j].event = "started"}
                  settledBefore == {j \in 1..(k - 1) : awLog[j].event = "settled"}
              IN Cardinality(before) = Cardinality(settledBefore)

\* the second part's bytes are being put after the first part's two
\* requests have settled
C30_Witness ==
    /\ awLoop = "uploadParts"
    /\ awPc = "await"
    /\ awIndex = 2
    /\ awStep = "put"
    /\ Len(awPending) = 1
    /\ Len(awLog) = 7

-----------------------------------------------------------------------------
(* Properties of md5Signature.                                             *)

RECURSIVE OrdinalInsert(_, _)
OrdinalInsert(sorted, e) ==
    IF sorted = <<>> THEN <<e>>
    ELSE IF LexCompare(e.k, Head(sorted).k) < 0 THEN <<e>> \o sorted
         ELSE <<Head(sorted)>> \o OrdinalInsert(Tail(sorted), e)

RECURSIVE OrdinalSort(_)
OrdinalSort(entries) ==
    IF entries = <<>> THEN <<>>
    ELSE OrdinalInsert(OrdinalSort(Tail(entries)), Head(entries))

\* C32: the text that is hashed is made of the entries whose value is
\* neither null nor undefined, sorted by key in code-unit order, each as
\* key=value, joined with "&"
C32_SignText ==
    sgPc = "signed" =>
      sgText = JoinPairs(OrdinalSort(PresentEntries(sgParams)))

-----------------------------------------------------------------------------
(* Properties of the init and commit responses of the chunked upload.      *)

\* C33: a commit response with no userFileId in file.userFileId,
\* data.userFileId or userFileId is tolerated: uploadFileSlices returns, and
\* the userFileId it returns is the empty text
C33_NoUserFileIdTolerated ==
    ( /\ commitPayload.received
      /\ Trim(commitPayload.fileUserFileId) = <<>>
      /\ Trim(commitPayload.dataUserFileId) = <<>>
      /\ Trim(commitPayload.userFileId) = <<>> )
    => /\ upc = "done"
       /\ uresult.state = "returned"
       /\ uresult.userFileId = <<>>
       /\ uresult.fileSize = fileSize
       /\ uresult.chunkCount = chunkCount

\* a file of two parts committed with a response that has no userFileId
C33_Witness ==
    /\ commitPayload.received
    /\ commitPayload.fileUserFileId = <<>>
    /\ commitPayload.dataUserFileId = <<>>
    /\ commitPayload.userFileId = <<>>
    /\ chunkCount = 2
    /\ Len(putReqs) = 2
    /\ uresult.state = "returned"

\* C34: an init response without uploadFileId makes the upload fail there:
\* the local file is never opened and no getMultiUploadUrls, PUT or commit
\* request is made
C34_NoUploadFileIdFails ==
    ( /\ initPayload.received
      /\ Trim(initPayload.dataUploadFileId) = <<>>
      /\ Trim(initPayload.uploadFileId) = <<>> )
    => /\ upc = "failed"
       /\ uresult = Thrown("missing_uploadFileId")
       /\ fd = "none"
       /\ openCount = 0
       /\ reads = <<>>
       /\ urlReqs = <<>>
       /\ putReqs = <<>>
       /\ commitReqs = <<>>
       /\ net = <<Req("init", 0), Resp("init", 0, TRUE)>>

\* the init response of a regular file carried a blank data.uploadFileId
\* and nothing else
C34_Witness ==
    /\ initPayload.received
    /\ initPayload.dataUploadFileId = <<" ">>
    /\ initPayload.uploadFileId = <<>>
    /\ isFile
    /\ upc = "failed"

-----------------------------------------------------------------------------
(* Properties of runUpload.                                                *)

StageRank(stage) ==
    CASE stage = "ensure" -> 1
      [] stage = "rsa" -> 2
      [] stage = "upload" -> 3
      [] OTHER -> 4

SignedEndpoints == {"initMultiUpload", "getMultiUploadUrls", "commitMultiUploadFile"}

\* C35: the requests of an upload come stage by stage, ensure-path, then the
\* RSA key, then the chunked upload; getRsaKey is called once at most and
\* its key signs the init request, every getMultiUploadUrls request and the
\* commit; when ensure-path fails there is no RSA-key and no upload request;
\* and a failure of any stage is the end: no request follows the one that
\* failed, none of the requests removes a folder or a part
C35_Stages ==
    /\ \A a, b \in 1..Len(ruLog) :
         a < b => StageRank(ruLog[a].stage) <= StageRank(ruLog[b].stage)
    /\ ruKeyCalls <= 1
    /\ \A a \in 1..Len(ruLog) :
         /\ ruLog[a].stage \in {"ensure", "rsa", "upload"}
         /\ ruLog[a].endpoint \in SignedEndpoints =>
              /\ ruLog[a].pkId = ruRsa
              /\ ruRsa # 0
              /\ ruKeyCalls = 1
              /\ ruLog[ruRsa].endpoint = "generateRsaKey"
    /\ (ruResult.state = "thrown" /\ ruResult.stage = "validate") => ruLog = <<>>
    /\ (ruResult.state = "thrown" /\ ruResult.stage = "ensure") =>
         /\ ruKeyCalls = 0
         /\ \A a \in 1..Len(ruLog) : ruLog[a].stage = "ensure"
    /\ (ruResult.state = "thrown" /\ ruResult.stage \in {"rsa", "upload"}) =>
         /\ ruLog # <<>>
         /\ ruLog[Len(ruLog)].stage = ruResult.stage

\* the second part's PUT failed after a folder had been created and the
\* second key candidate had answered
C35_Witness ==
    /\ ruResult = RunThrown("upload")
    /\ ruPartNo = 2
    /\ ruLog[Len(ruLog)].endpoint = "put"
    /\ \E a \in 1..Len(ruLog) : ruLog[a].endpoint = "createFolder"
    /\ ruRsa > 1
    /\ ruLog[ruRsa - 1].endpoint = "generateRsaKey"

-----------------------------------------------------------------------------
(* The number of creation requests of ensureFolderPath.                    *)

CreateRequests == {k \in FlogIndex : flog[k].ev = "create"}

\* the first listings of a part that did not hold, or held, its name
MissingAtFirst ==
    {k \in FlogIndex : /\ flog[k].ev = "list"
                       /\ ~IsRelist(k)
                       /\ flog[k].ok
                       /\ ~Listed(flog[k].rows, flog[k].name)}

FoundAtFirst ==
    {k \in FlogIndex : /\ flog[k].ev = "list"
                       /\ ~IsRelist(k)
                       /\ flog[k].ok
                       /\ Listed(flog[k].rows, flog[k].name)}

\* C36: ensure-path makes five creation requests for every part its first
\* listing does not hold, whatever the candidates answer, and none for a
\* part its first listing holds, which it lists once; so a call that is not
\* in the middle of the candidates has made five times as many creation
\* requests as it found parts missing
C36_CreationCount ==
    fcall = "ensure" =>
      /\ \A k \in MissingAtFirst :
           LET made == {j \in CreateRequests :
                          j > k /\ SameTarget(flog[j], flog[k])}
           IN IF fpc = "create" /\ k + cand - 1 = Len(flog)
              THEN made = (k + 1)..(k + cand - 1)
              ELSE /\ made = (k + 1)..(k + 5)
                   /\ \A c \in 1..5 : flog[k + c].cand = c
      /\ \A k \in FoundAtFirst :
           /\ \A j \in CreateRequests : ~SameTarget(flog[j], flog[k])
           /\ {j \in FlogIndex : flog[j].ev = "list" /\ SameTarget(flog[j], flog[k])}
                = {k}
      /\ fpc # "create" =>
           Cardinality(CreateRequests) = 5 * Cardinality(MissingAtFirst)

\* a call that found its first part, made the five requests for the second
\* although the first candidate was accepted, and returned
C36_Witness ==
    /\ fcall = "ensure"
    /\ callNo = 1
    /\ fpc = "returned"
    /\ Cardinality(FoundAtFirst) = 1
    /\ Cardinality(MissingAtFirst) = 1
    /\ Cardinality(CreateRequests) = 5
    /\ \E k \in CreateRequests : flog[k].cand = 1 /\ flog[k].ok

-----------------------------------------------------------------------------
(* The bytes of a part: read, hashed, announced and sent.                  *)

\* the bytes the k-th read returned
BytesOfRead(k) == FileBytes(reads[k].offset, reads[k].readBytes)

RECURSIVE BytesOfReads(_)
BytesOfReads(n) ==
    IF n = 0 THEN NoBytes ELSE Concat(BytesOfReads(n - 1), BytesOfRead(n))

\* C37: the body of the PUT of part k is the bytes the read of part k
\* returned, short or not; the MD5 of these bytes is what the
\* getMultiUploadUrls request of part k announces as k-<base64 md5> and what
\* is pushed as the k-th digest of the list; and the whole-file hash has
\* been fed the bytes of the parts read so far, in order
C37_PartBytes ==
    /\ Len(urlReqs) = Len(reads)
    /\ Len(md5PartHexUpper) = Len(reads)
    /\ Len(putReqs) <= Len(reads)
    /\ \A k \in 1..Len(reads) :
         /\ reads[k].part = k
         /\ urlReqs[k].part = k
         /\ urlReqs[k].md5 = Base64(Md5(BytesOfRead(k)))
         /\ md5PartHexUpper[k] = HexUpper(Md5(BytesOfRead(k)))
    /\ \A k \in 1..Len(putReqs) :
         /\ putReqs[k].part = k
         /\ putReqs[k].body = BytesOfRead(k)
         /\ urlReqs[k].md5 = Base64(Md5(putReqs[k].body))
    /\ fileMd5Hasher = BytesOfReads(Len(reads))

\* the second part was read short and sent
C37_Witness ==
    /\ Len(putReqs) = 2
    /\ reads[2].readBytes > 0
    /\ reads[2].readBytes < reads[2].size
    /\ putReqs[2].body = BytesOfRead(2)

-----------------------------------------------------------------------------
(* The files of a resolved share.                                          *)

\* C38: a resolution that ends with ok = true returns at least one file:
\* the root file id is the fileId of share-info or else the shareId, so it
\* is never empty, and a folder share whose listing maps to no file returns
\* the one entry made for the root file, with is_folder = false and the
\* root file id as file id
C38_FilesNotEmpty ==
    ResolvedOk =>
      LET files == sresult.data.files
          suppliedFileId == InfoField({"fileId", "fileID", "fileid"})
      IN /\ files # <<>>
         /\ sresult.data.share_id # <<>>
         /\ rootFileId # <<>>
         /\ rootFileId = IF suppliedFileId # <<>> THEN suppliedFileId
                         ELSE sresult.data.share_id
         /\ (isFolder /\ RowsWithId = <<>>) =>
              /\ Len(files) = 1
              /\ ~files[1].is_folder
              /\ files[1].file_id = rootFileId

\* a folder share without a fileId in share-info whose listing was empty
C38_Witness ==
    /\ ResolvedOk
    /\ isFolder
    /\ InfoField({"fileId", "fileID", "fileid"}) = <<>>
    /\ ListedRows(listResp.body) = <<>>
    /\ Len(sresult.data.files) = 1
    /\ sresult.data.files[1].file_id = shareId

-----------------------------------------------------------------------------
(* The listing response and the attempts of a resolved share.              *)

ListingAnswered == listResp # NoResponse

\* C39: with a shareId recovered, a listing response of any status and any
\* body ends the resolution with ok = true; and the attempts of a result
\* with ok = true are three records, of the access-code check, of share-info
\* and of the listing in this order, the first being the record of the
\* skipped check when the URL has no pwd
C39_ListingTolerated ==
    /\ ListingAnswered => (ResolvedOk /\ shareId # <<>>)
    /\ ResolvedOk =>
         LET made == sresult.diagnostics.attempts
         IN /\ ListingAnswered
            /\ Len(made) = 3
            /\ made[1].step = "check_access_code_primary_js"
            /\ made[1].endpoint = CHECK_ENDPOINT
            /\ made[2].step = "get_share_info_js"
            /\ made[2].endpoint = INFO_ENDPOINT
            /\ made[3].step = "list_share_dir_js"
            /\ made[3].endpoint = LIST_ENDPOINT
            /\ made[3].status = listResp.status
            /\ made[3].ok = (listResp.status >= 200 /\ listResp.status < 400)
            /\ AccessCode = <<>> =>
                 /\ ~made[1].ok
                 /\ made[1].status = 0
                 /\ made[1].message = "pwd_missing_skip"
                 /\ CallsTo(CHECK_ENDPOINT) = {}

\* a share without pwd whose listing answered 500 with a page of HTML
C39_Witness ==
    /\ ResolvedOk
    /\ AccessCode = <<>>
    /\ listResp.status = 500
    /\ listResp.body.wrap = "html"
    /\ Len(sresult.diagnostics.attempts) = 3
    /\ ~sresult.diagnostics.attempts[3].ok

-----------------------------------------------------------------------------
(* Which shareId the listing is asked with.                                *)

ShareIdOfInfo == getDeepString(parseJsonLike(infoResp.body), ShareIdKeys)

ShareIdOfCheck == getDeepString(parseJsonLike(checkResp.body), ShareIdKeys)

\* C40: a shareId is contained in a response when the deep search of its
\* parsed payload finds one.  When share-info contains a shareId it is the
\* one used, also when the access-code check contains another; the one of
\* the access-code check is used when share-info contains none, and only
\* then; a shareId matched by the patterns is used only when neither
\* contains one; and the listing is asked with the shareId so chosen
C40_ShareIdPrecedence ==
    (spc # "idle" /\ infoResp # NoResponse) =>
      /\ ShareIdOfInfo # <<>> => shareId = ShareIdOfInfo
      /\ (ShareIdOfInfo = <<>> /\ ShareIdOfCheck # <<>>) => shareId = ShareIdOfCheck
      /\ (shareId # <<>> /\ shareId = ShareIdOfCheck /\ shareId # ShareIdOfInfo)
           => ShareIdOfInfo = <<>>
      /\ (shareId # <<>> /\ shareId \notin {ShareIdOfInfo, ShareIdOfCheck})
           => /\ ShareIdOfInfo = <<>>
              /\ ShareIdOfCheck = <<>>
              /\ shareId \in {extractShareIdFromText(infoResp.body.frags),
                              extractShareIdFromText(infoResp.url)}
      /\ \A k \in CallsTo(LIST_ENDPOINT) : scalls[k].shareId = shareId

\* both responses held a shareId, and the listing was asked with the one of
\* share-info
C40_Witness ==
    /\ ResolvedOk
    /\ ShareIdOfCheck = <<"c", "h", "k", "1">>
    /\ ShareIdOfInfo = <<"i", "n", "f", "1">>
    /\ \E k \in CallsTo(LIST_ENDPOINT) : scalls[k].shareId = <<"i", "n", "f", "1">>

====
